---- MODULE Spec2Model ----
(***************************************************************************)
(* lazypost: the path-addressed tree engine of the request browser.        *)
(*                                                                         *)
(* Indices are the program's 0-based indices; a Rust Vec v is a TLA+       *)
(* sequence and v[i] is At(v, i).  Option<T> is a sequence of length at    *)
(* most one: None is <<>>, Some(x) is <<x>>.  A String is a sequence of    *)
(* one-character strings, so that to_lowercase and contains are computed.  *)
(***************************************************************************)
EXTENDS Integers, Sequences, FiniteSets, TLC

None == <<>>
Some(x) == <<x>>
At(v, i) == v[i + 1]

\* usize::MAX, the index of the Favorites pseudo-folder path.  TLC integers
\* are 32-bit, so the largest of those stands for the largest usize; the
\* program only ever compares it for equality with real indices.
USIZE_MAX == 2147483647
FavoritesPath == <<USIZE_MAX>>

(***************************************************************************)
(* Bounds of the model.                                                    *)
(***************************************************************************)
MaxQueryLen == 2
MaxEdits == 1
MaxFavs == 1
MaxUpdates == 1
MaxTreeFavs == 2
MaxTreeEdits == 2
MaxJsonQueryLen == 1
MaxPathLen == 4
MaxPathIndex == 2
MaxDialogLen == 1

(***************************************************************************)
(* Strings.                                                                *)
(***************************************************************************)
LowerChar(c) ==
    CASE c = "A" -> "a"
      [] c = "B" -> "b"
      [] c = "F" -> "f"
      [] c = "O" -> "o"
      [] c = "R" -> "r"
      [] OTHER -> c

to_lowercase(s) == [i \in 1..Len(s) |-> LowerChar(s[i])]

UpperChar(c) ==
    CASE c = "a" -> "A"
      [] c = "c" -> "C"
      [] c = "e" -> "E"
      [] c = "g" -> "G"
      [] c = "h" -> "H"
      [] c = "o" -> "O"
      [] c = "p" -> "P"
      [] c = "s" -> "S"
      [] c = "t" -> "T"
      [] OTHER -> c

to_uppercase(s) == [i \in 1..Len(s) |-> UpperChar(s[i])]

contains(hay, needle) ==
    \E i \in 0..(Len(hay) - Len(needle)) :
        SubSeq(hay, i + 1, i + Len(needle)) = needle

(***************************************************************************)
(* api::models: Request, RequestUrl, Item.                                 *)
(***************************************************************************)
UrlEmpty == [kind |-> "Empty", raw |-> <<>>]
UrlSimple(s) == [kind |-> "Simple", raw |-> s]
UrlComplex(s) == [kind |-> "Complex", raw |-> s]

url_to_string(u) == u.raw

\* Request { method, url, header, body: Option<RequestBody{raw}>, .. }
\* body is the Option of the raw text.
MkRequest(method, url, header, body) ==
    [method |-> method, url |-> url, header |-> header, body |-> body]

RequestItem(id, name, request) ==
    [kind |-> "Request", id |-> id, name |-> name, request |-> request,
     item |-> <<>>]

Folder(name, item) ==
    [kind |-> "Folder", id |-> None, name |-> name, request |-> None,
     item |-> item]

(***************************************************************************)
(* app.rs free functions.                                                  *)
(***************************************************************************)
MkFlatItem(name, depth, is_folder, expanded, request, request_id, path) ==
    [name |-> name, depth |-> depth, is_folder |-> is_folder,
     expanded |-> expanded, request |-> request, request_id |-> request_id,
     path |-> path]

RECURSIVE flatten_from(_, _, _, _, _)
\* the body of the for loop of flatten_recursive, from index i on
flatten_from(items, i, depth, path, expanded_set) ==
    IF i >= Len(items) THEN <<>>
    ELSE
        LET item == At(items, i)
            current_path == Append(path, i)
            is_expanded == current_path \in expanded_set
            here ==
                IF item.kind = "Folder"
                THEN <<MkFlatItem(item.name, depth, TRUE, is_expanded,
                                  None, None, current_path)>>
                     \o (IF is_expanded
                         THEN flatten_from(item.item, 0, depth + 1,
                                           current_path, expanded_set)
                         ELSE <<>>)
                ELSE <<MkFlatItem(item.name, depth, FALSE, FALSE,
                                  Some(item.request), item.id, current_path)>>
        IN here \o flatten_from(items, i + 1, depth, path, expanded_set)

\* a flatten_recursive that loses the expanded set on the way down
flatten_recursive_collapsed(items, depth, path, expanded_set) ==
    flatten_from(items, 0, depth, path, {})

\* a flatten_recursive that emits the rows of a level last to first
flatten_recursive_reversed(items, depth, path, expanded_set) ==
    LET rows == flatten_from(items, 0, depth, path, expanded_set)
    IN [i \in 1..Len(rows) |-> rows[Len(rows) + 1 - i]]

flatten_recursive(items, depth, path, expanded_set) ==
    flatten_from(items, 0, depth, path, expanded_set)

RECURSIVE get_item_at_path_past_leaf(_, _)
\* a resolve that answers with the leaf when the path continues past it
get_item_at_path_past_leaf(items, path) ==
    IF path = <<>> THEN None
    ELSE
        LET index == path[1]
            remaining_path == Tail(path)
        IN IF index >= Len(items) THEN None
           ELSE LET it == At(items, index)
                IN IF it.kind = "Folder"
                   THEN IF remaining_path = <<>>
                        THEN Some([name |-> it.name, request |-> None,
                                   request_id |-> None])
                        ELSE get_item_at_path_past_leaf(it.item,
                                                        remaining_path)
                   ELSE Some([name |-> it.name,
                              request |-> Some(it.request),
                              request_id |-> it.id])

RECURSIVE get_item_at_path(_, _)
\* Option<(name, Option<Request>, Option<String>)>
get_item_at_path(items, path) ==
    IF path = <<>> THEN None
    ELSE
        LET index == path[1]
            remaining_path == Tail(path)
        IN IF index >= Len(items) THEN None
           ELSE LET it == At(items, index)
                IN IF it.kind = "Folder"
                   THEN IF remaining_path = <<>>
                        THEN Some([name |-> it.name, request |-> None,
                                   request_id |-> None])
                        ELSE get_item_at_path(it.item, remaining_path)
                   ELSE IF remaining_path = <<>>
                        THEN Some([name |-> it.name,
                                   request |-> Some(it.request),
                                   request_id |-> it.id])
                        ELSE None

RECURSIVE search_from(_, _, _, _)
\* the body of the for loop of search_items_recursive, from index i on
search_from(items, i, query, path) ==
    IF i >= Len(items) THEN <<>>
    ELSE
        LET item == At(items, i)
            current_path == Append(path, i)
            hit == IF contains(to_lowercase(item.name), query)
                   THEN <<current_path>> ELSE <<>>
            here == IF item.kind = "Folder"
                    THEN hit \o search_from(item.item, 0, query, current_path)
                    ELSE hit
        IN here \o search_from(items, i + 1, query, path)

\* a search that looks at the children of the first item only when it
\* looks below the root level
search_items_first_only(items, query, path) ==
    search_from(IF items = <<>> THEN items ELSE <<items[1]>>, 0, query, path)

\* a search that records paths one level too deep
search_items_shifted(items, query, path) ==
    search_from(items, 0, query, Append(path, 0))

search_items_recursive(items, query, path) ==
    search_from(items, 0, query, path)

(***************************************************************************)
(* The remote service's data: the collections of the workspace and, per    *)
(* collection uid, the item tree the service returns for get_collection.   *)
(***************************************************************************)
GET == <<"G", "E", "T">>
POST == <<"P", "O", "S", "T">>
PUT == <<"P", "U", "T">>
DELETE == <<"D", "E", "L", "E", "T", "E">>
PATCH == <<"P", "A", "T", "C", "H">>
HEAD == <<"H", "E", "A", "D">>

ReqFoo == MkRequest(GET, UrlSimple(<<"u">>), <<"h">>, None)
ReqBar == MkRequest(POST, UrlComplex(<<"v">>), <<>>, Some(<<"b">>))
ReqBoo == MkRequest(GET, UrlEmpty, <<>>, None)

LeafFoo == RequestItem(Some("r1"), <<"f", "o", "o">>, ReqFoo)
LeafBar == RequestItem(Some("r2"), <<"b", "a", "r">>, ReqBar)
LeafBoo == RequestItem(None, <<"B", "o", "o">>, ReqBoo)

\* spec.md section 8: Folder "A" [Leaf "foo", Leaf "bar"]
TreeA == <<Folder(<<"A">>, <<LeafFoo, LeafBar>>)>>
\* a nested folder, an empty folder and a root-level leaf
TreeNested ==
    <<Folder(<<"A">>, <<Folder(<<"A", "b">>, <<LeafFoo, LeafBoo>>), LeafBar>>),
      Folder(<<"f", "o">>, <<>>)>>
TreeFlat == <<LeafBoo, Folder(<<"b", "o">>, <<LeafFoo>>)>>

Trees == {TreeA, TreeNested, TreeFlat}

\* CollectionInfo { name, uid }, as list_collections returns them
Collections ==
    <<[name |-> <<"A", "b">>, uid |-> "c1"],
      [name |-> <<"B", "o">>, uid |-> "c2"]>>

(***************************************************************************)
(* State.  app is the App struct (app.rs:86-140) with its Config and       *)
(* LocalEditsStore; panicked records that an index expression of the       *)
(* program went out of range and the process is gone.                      *)
(***************************************************************************)
VARIABLES app, remote, task, updates

vars == <<app, remote, task, updates>>

\* App::new (app.rs:143-194) over Config::new (config.rs:96-103)
NewApp ==
    [favorites |-> <<>>,
     favorite_requests |-> <<>>,
     last_state |-> None,
     local_edits |-> <<>>,
     focused_pane |-> "Collections",
     collections |-> <<>>,
     flat_collections |-> <<>>,
     selected_collection_index |-> 0,
     current_collection |-> None,
     flat_items |-> <<>>,
     selected_item_index |-> 0,
     expanded_folders |-> {},
     collections_favorites_expanded |-> TRUE,
     current_request |-> None,
     input_mode |-> "Normal",
     pending_save |-> None,
     search_query |-> <<>>,
     search_matches |-> <<>>,
     search_match_paths |-> <<>>,
     current_match_index |-> 0,
     pre_search_index |-> 0,
     collection_loading |-> None,
     unsaved_edit |-> None,
     response |-> None,
     json_viewer_state |-> None,
     new_request_dialog |-> None,
     pending_execute |-> None,
     request_executing |-> FALSE,
     panicked |-> FALSE]

\* an operation runs only while no earlier index expression has panicked
Panic(a) == [a EXCEPT !.panicked = TRUE]

(***************************************************************************)
(* Config (config.rs).                                                     *)
(***************************************************************************)
SeqContains(s, x) == \E i \in 1..Len(s) : s[i] = x

add_favorite_request(favs, collection_uid, path) ==
    LET fav == [collection_uid |-> collection_uid, path |-> path]
    IN IF ~SeqContains(favs, fav) THEN Append(favs, fav) ELSE favs

\* a removal that forgets every favorite of the collection
remove_favorite_request_all(favs, collection_uid, path) ==
    LET keep(f) == f.collection_uid # collection_uid
    IN SelectSeq(favs, keep)

\* Config::remove_favorite_request (config.rs:112-114)
remove_favorite_request(favs, collection_uid, path) ==
    LET keep(f) == ~(f.collection_uid = collection_uid /\ f.path = path)
    IN SelectSeq(favs, keep)

is_request_favorite(favs, collection_uid, path) ==
    \E i \in 1..Len(favs) :
        favs[i].collection_uid = collection_uid /\ favs[i].path = path

(***************************************************************************)
(* App::flatten_items (app.rs:1012-1063).                                  *)
(***************************************************************************)
\* favorite_paths: the favorites of collections[selected_collection_index]
\* favorite paths that are not filtered by collection
favorite_paths_unfiltered(a, collection_uid) ==
    [i \in 1..Len(a.favorite_requests) |-> a.favorite_requests[i].path]

favorite_paths(a, collection_uid) ==
    LET mine(f) == f.collection_uid = collection_uid
        kept == SelectSeq(a.favorite_requests, mine)
    IN [i \in 1..Len(kept) |-> kept[i].path]

RECURSIVE favorite_rows(_, _, _)
\* the for loop over favorite_paths, from position i (1-based) on
favorite_rows(items, fav_paths, i) ==
    IF i > Len(fav_paths) THEN <<>>
    ELSE LET got == get_item_at_path(items, fav_paths[i])
             row == IF got = None THEN <<>>
                    ELSE <<MkFlatItem(got[1].name, 1, FALSE, FALSE,
                                      got[1].request, got[1].request_id,
                                      fav_paths[i])>>
         IN row \o favorite_rows(items, fav_paths, i + 1)

\* a Favorites section that reads the sentinel in expanded_folders as
\* 'expanded'
favorites_section_member(a, items, fav_paths) ==
    IF fav_paths = <<>> THEN <<>>
    ELSE LET favorites_expanded == FavoritesPath \in a.expanded_folders
         IN <<MkFlatItem(<<"F", "a", "v", "o", "r", "i", "t", "e", "s">>, 0,
                         TRUE, favorites_expanded, None, None, FavoritesPath)>>
            \o (IF favorites_expanded
                THEN favorite_rows(items, fav_paths, 1)
                ELSE <<>>)

favorites_section(a, items, fav_paths) ==
    IF fav_paths = <<>> THEN <<>>
    ELSE LET favorites_expanded == FavoritesPath \notin a.expanded_folders
         IN <<MkFlatItem(<<"F", "a", "v", "o", "r", "i", "t", "e", "s">>, 0,
                         TRUE, favorites_expanded, None, None, FavoritesPath)>>
            \o (IF favorites_expanded
                THEN favorite_rows(items, fav_paths, 1)
                ELSE <<>>)

flatten_items(a) ==
    IF a.current_collection = None THEN [a EXCEPT !.flat_items = <<>>]
    ELSE IF a.collections # <<>>
            /\ a.selected_collection_index >= Len(a.collections)
    THEN Panic([a EXCEPT !.flat_items = <<>>])
    ELSE
        LET items == a.current_collection[1].item
            collection_uid ==
                IF a.collections = <<>> THEN ""
                ELSE At(a.collections, a.selected_collection_index).uid
            fav_paths == favorite_paths(a, collection_uid)
        IN [a EXCEPT !.flat_items =
                favorites_section(a, items, fav_paths)
                \o flatten_recursive(items, 0, <<>>, a.expanded_folders)]

(***************************************************************************)
(* App::update_search_matches (app.rs:1720-1748).                          *)
(***************************************************************************)
RECURSIVE collection_matches(_, _, _)
collection_matches(cols, query, i) ==
    IF i >= Len(cols) THEN <<>>
    ELSE (IF contains(to_lowercase(At(cols, i).name), query)
          THEN <<i>> ELSE <<>>)
         \o collection_matches(cols, query, i + 1)

update_search_matches(a) ==
    LET cleared == [a EXCEPT !.search_matches = <<>>,
                             !.search_match_paths = <<>>]
        query == to_lowercase(a.search_query)
    IN IF a.search_query = <<>> THEN cleared
       ELSE IF a.focused_pane = "Collections"
       THEN [cleared EXCEPT !.search_matches =
                collection_matches(a.collections, query, 0)]
       ELSE IF a.focused_pane = "Requests"
       THEN IF a.current_collection = None THEN cleared
            ELSE [cleared EXCEPT !.search_match_paths =
                    search_items_recursive(a.current_collection[1].item,
                                           query, <<>>)]
       ELSE cleared

(***************************************************************************)
(* Selection, preview and persisted cursor.                                *)
(***************************************************************************)
\* Iterator::position: the first 0-based index whose element passes Test
Position(s, Test(_)) ==
    IF \E i \in 1..Len(s) : Test(s[i])
    THEN Some((CHOOSE i \in 1..Len(s) :
                  Test(s[i]) /\ \A j \in 1..(i - 1) : ~Test(s[j])) - 1)
    ELSE None

\* a sentinel test that never finds the sentinel
PathHasMaxNever(path) == FALSE

PathHasMax(path) == \E i \in 1..Len(path) : path[i] = USIZE_MAX

\* App::update_preview_from_selection (app.rs:1482-1489)
update_preview_from_selection(a) ==
    IF a.selected_item_index < Len(a.flat_items)
       /\ At(a.flat_items, a.selected_item_index).request # None
    THEN [a EXCEPT !.current_request =
              At(a.flat_items, a.selected_item_index).request,
                   !.response = None]
    ELSE a

\* App::save_last_state (app.rs:1129-1160)
save_last_state(a) ==
    IF a.flat_collections = <<>> THEN a
    ELSE IF a.selected_collection_index >= Len(a.flat_collections)
    THEN Panic(a)
    ELSE
        LET flat_col == At(a.flat_collections, a.selected_collection_index)
        IN IF flat_col.is_favorites_folder \/ flat_col.uid = "" THEN a
           ELSE IF a.flat_items # <<>>
                   /\ a.selected_item_index >= Len(a.flat_items)
           THEN Panic(a)
           ELSE
               LET path == IF a.flat_items = <<>> THEN <<>>
                           ELSE At(a.flat_items, a.selected_item_index).path
                   request_path == IF PathHasMax(path) THEN <<>> ELSE path
               IN [a EXCEPT !.last_state =
                       Some([collection_uid |-> flat_col.uid,
                             request_path |-> request_path])]

\* App::expand_to_path (app.rs:1229-1236)
expand_to_path(a, target_path) ==
    flatten_items(
        [a EXCEPT !.expanded_folders =
            @ \cup {SubSeq(target_path, 1, i) :
                        i \in 1..(Len(target_path) - 1)}])

(***************************************************************************)
(* Search (app.rs:1676-1847).                                              *)
(***************************************************************************)
\* App::start_search; the caller checks focused_pane # Preview
start_search(a) ==
    IF a.focused_pane = "Preview" THEN a
    ELSE [a EXCEPT !.search_query = <<>>,
                   !.search_matches = <<>>,
                   !.current_match_index = 0,
                   !.pre_search_index =
                       IF a.focused_pane = "Collections"
                       THEN a.selected_collection_index
                       ELSE IF a.focused_pane = "Requests"
                       THEN a.selected_item_index
                       ELSE 0,
                   !.input_mode = "Search"]

match_count(a) ==
    IF a.focused_pane = "Requests" THEN Len(a.search_match_paths)
    ELSE Len(a.search_matches)

\* App::jump_to_current_match (app.rs:1773-1793)
jump_to_current_match(a) ==
    IF a.focused_pane = "Collections"
    THEN IF a.current_match_index < Len(a.search_matches)
         THEN [a EXCEPT !.selected_collection_index =
                   At(a.search_matches, a.current_match_index)]
         ELSE a
    ELSE IF a.focused_pane = "Requests"
    THEN IF a.current_match_index < Len(a.search_match_paths)
         THEN LET path == At(a.search_match_paths, a.current_match_index)
                  b == expand_to_path(a, path)
                  same(item) == item.path = path
                  item_index == Position(b.flat_items, same)
              IN IF b.panicked \/ item_index = None THEN b
                 ELSE update_preview_from_selection(
                          [b EXCEPT !.selected_item_index = item_index[1]])
         ELSE a
    ELSE a

jump_if_matches(a) ==
    IF match_count(a) > 0
    THEN jump_to_current_match([a EXCEPT !.current_match_index = 0])
    ELSE a

\* App::search_input_char (app.rs:1692-1704)
search_input_char(a, c) ==
    jump_if_matches(
        update_search_matches([a EXCEPT !.search_query = Append(@, c)]))

\* App::search_backspace (app.rs:1706-1718); String::pop
search_backspace(a) ==
    jump_if_matches(
        update_search_matches(
            [a EXCEPT !.search_query =
                IF @ = <<>> THEN <<>> ELSE SubSeq(@, 1, Len(@) - 1)]))

\* App::confirm_search (app.rs:1795-1802)
confirm_search(a) ==
    LET b == [a EXCEPT !.input_mode = "Normal"]
    IN IF a.focused_pane = "Requests" THEN save_last_state(b) ELSE b

\* a cancel that leaves the cursor where the last jump put it
cancel_search_keep(a) ==
    [a EXCEPT !.search_query = <<>>,
              !.search_matches = <<>>,
              !.input_mode = "Normal"]

\* App::cancel_search (app.rs:1804-1815)
cancel_search(a) ==
    LET b == IF a.focused_pane = "Collections"
             THEN [a EXCEPT !.selected_collection_index = a.pre_search_index]
             ELSE IF a.focused_pane = "Requests"
             THEN [a EXCEPT !.selected_item_index = a.pre_search_index]
             ELSE a
    IN [b EXCEPT !.search_query = <<>>,
                 !.search_matches = <<>>,
                 !.input_mode = "Normal"]

\* App::next_match (app.rs:1817-1829)
next_match(a) ==
    IF match_count(a) = 0 THEN a
    ELSE jump_to_current_match(
             [a EXCEPT !.current_match_index = (@ + 1) % match_count(a)])

\* App::prev_match (app.rs:1831-1847)
prev_match(a) ==
    IF match_count(a) = 0 THEN a
    ELSE jump_to_current_match(
             [a EXCEPT !.current_match_index =
                 IF @ = 0 THEN match_count(a) - 1 ELSE @ - 1])

(***************************************************************************)
(* Collections pane (app.rs:196-333, 922-967).                             *)
(***************************************************************************)
MkFlatCollection(name, uid, is_favorites_folder, depth) ==
    [name |-> name, uid |-> uid, is_favorites_folder |-> is_favorites_folder,
     depth |-> depth]

\* Config::is_favorite / add_favorite / remove_favorite (config.rs:161-173)
is_favorite(a, uid) == SeqContains(a.favorites, uid)

\* App::flatten_collections (app.rs:279-320)
flatten_collections(a) ==
    LET fav(c) == is_favorite(a, c.uid)
        favs == SelectSeq(a.collections, fav)
        section ==
            IF favs = <<>> THEN <<>>
            ELSE <<MkFlatCollection(<<"F", "a", "v", "o", "r", "i", "t", "e", "s">>,
                                    "", TRUE, 0)>>
                 \o (IF a.collections_favorites_expanded
                     THEN [i \in 1..Len(favs) |->
                              MkFlatCollection(favs[i].name, favs[i].uid,
                                               FALSE, 1)]
                     ELSE <<>>)
        all == [i \in 1..Len(a.collections) |->
                   MkFlatCollection(a.collections[i].name,
                                    a.collections[i].uid, FALSE, 0)]
    IN [a EXCEPT !.flat_collections = section \o all]

\* App::toggle_collections_favorites_folder (app.rs:322-333)
toggle_collections_favorites_folder(a) ==
    LET selected_uid ==
            IF a.selected_collection_index < Len(a.flat_collections)
            THEN Some(At(a.flat_collections, a.selected_collection_index).uid)
            ELSE None
        b == flatten_collections(
                 [a EXCEPT !.collections_favorites_expanded = ~@])
        same(c) == c.uid = selected_uid[1]
        pos == IF selected_uid = None THEN None
               ELSE Position(b.flat_collections, same)
    IN IF pos = None THEN b
       ELSE [b EXCEPT !.selected_collection_index = pos[1]]

\* App::toggle_favorite, FocusedPane::Collections (app.rs:198-223)
toggle_favorite_collections(a) ==
    IF a.flat_collections = <<>> THEN a
    ELSE IF a.selected_collection_index >= Len(a.flat_collections)
    THEN Panic(a)
    ELSE
        LET flat_collection ==
                At(a.flat_collections, a.selected_collection_index)
            uid == flat_collection.uid
            other(u) == u # uid
            b == flatten_collections(
                     [a EXCEPT !.favorites =
                         IF is_favorite(a, uid) THEN SelectSeq(@, other)
                         ELSE Append(@, uid)])
            same(c) == c.uid = uid
            new_index == Position(b.flat_collections, same)
        IN IF flat_collection.is_favorites_folder THEN a
           ELSE IF new_index = None THEN b
           ELSE [b EXCEPT !.selected_collection_index = new_index[1]]

\* App::toggle_favorite, FocusedPane::Requests (app.rs:224-250)
toggle_favorite_requests(a) ==
    IF a.flat_items = <<>> \/ a.collections = <<>> THEN a
    ELSE IF a.selected_item_index >= Len(a.flat_items) THEN Panic(a)
    ELSE
        LET item == At(a.flat_items, a.selected_item_index)
            path == item.path
        IN IF path = FavoritesPath THEN a
           ELSE IF a.selected_collection_index >= Len(a.collections)
           THEN Panic(a)
           ELSE
               LET collection_uid ==
                       At(a.collections, a.selected_collection_index).uid
                   b == flatten_items(
                            [a EXCEPT !.favorite_requests =
                                IF is_request_favorite(@, collection_uid, path)
                                THEN remove_favorite_request(@, collection_uid,
                                                             path)
                                ELSE add_favorite_request(@, collection_uid,
                                                          path)])
                   same(it) == it.path = path
                   new_index == Position(b.flat_items, same)
               IN IF b.panicked \/ new_index = None THEN b
                  ELSE [b EXCEPT !.selected_item_index = new_index[1]]

\* App::toggle_favorite (app.rs:196-262)
toggle_favorite(a) ==
    IF a.focused_pane = "Collections" THEN toggle_favorite_collections(a)
    ELSE IF a.focused_pane = "Requests" THEN toggle_favorite_requests(a)
    ELSE a

\* App::load_collection_data (app.rs:940-967); got is the Result of
\* client.get_collection as an Option<CollectionDetail>
load_collection_data(a, got) ==
    LET done == [a EXCEPT !.collection_loading = None]
    IN IF got = None THEN done
       ELSE
           LET b == flatten_items(
                        [a EXCEPT !.current_collection = got,
                                  !.expanded_folders = {}])
               c == [b EXCEPT !.selected_item_index = 0,
                              !.current_request = None,
                              !.response = None,
                              !.focused_pane = "Requests"]
               d == IF b.panicked THEN b ELSE save_last_state(c)
           IN IF d.panicked THEN d
              ELSE [d EXCEPT !.collection_loading = None]

(***************************************************************************)
(* Local edits (config.rs:225-250, app.rs:1325-1424).                      *)
(***************************************************************************)
\* a set_edit that appends without removing the entry of the same key
set_edit_append(edits, collection_uid, path, edited) ==
    Append(edits,
           [collection_uid |-> collection_uid, path |-> path,
            name |-> edited.name, method |-> edited.method,
            url |-> edited.url, body |-> edited.body])

\* LocalEditsStore::set_edit
set_edit(edits, collection_uid, path, edited) ==
    LET keep(e) == ~(e.collection_uid = collection_uid /\ e.path = path)
    IN Append(SelectSeq(edits, keep),
              [collection_uid |-> collection_uid, path |-> path,
               name |-> edited.name, method |-> edited.method,
               url |-> edited.url, body |-> edited.body])

\* LocalEditsStore::remove_edit
remove_edit(edits, collection_uid, path) ==
    LET keep(e) == ~(e.collection_uid = collection_uid /\ e.path = path)
    IN SelectSeq(edits, keep)

\* LocalEditsStore::get_edit
get_edit(edits, collection_uid, path) ==
    LET hit(e) == e.collection_uid = collection_uid /\ e.path = path
        found == SelectSeq(edits, hit)
    IN IF found = <<>> THEN None ELSE Some(found[1])

\* App::get_current_collection_uid (app.rs:1371-1377)
get_current_collection_uid(a) ==
    IF a.selected_collection_index < Len(a.collections)
    THEN Some(At(a.collections, a.selected_collection_index).uid)
    ELSE None

\* App::get_local_edit (app.rs:1389-1398): Option<EditableRequest>
get_local_edit(a, path) ==
    LET collection_uid == get_current_collection_uid(a)
        edit == IF collection_uid = None THEN None
                ELSE get_edit(a.local_edits, collection_uid[1], path)
    IN IF edit = None THEN None
       ELSE Some([name |-> edit[1].name, method |-> edit[1].method,
                  url |-> edit[1].url, body |-> edit[1].body])

\* the Request built from an EditableRequest (app.rs:1096-1113, 1327-1344,
\* main.rs:103-120): header is taken from the request it replaces
edited_request(edited, header) ==
    MkRequest(edited.method,
              IF edited.url = <<>> THEN UrlEmpty ELSE UrlSimple(edited.url),
              header,
              IF edited.body = <<>> THEN None ELSE Some(edited.body))

\* App::clear_local_edit (app.rs:1401-1408)
clear_local_edit(a, path) ==
    LET collection_uid == get_current_collection_uid(a)
    IN IF collection_uid = None THEN a
       ELSE [a EXCEPT !.local_edits =
                remove_edit(@, collection_uid[1], path)]

\* App::store_local_edit (app.rs:1325-1364)
store_local_edit(a, edited, item_index) ==
    LET header == IF a.current_request = None THEN <<>>
                  ELSE a.current_request[1].header
        b == [a EXCEPT !.current_request =
                 Some(edited_request(edited, header))]
        collection_uid == get_current_collection_uid(a)
    IN IF collection_uid # None /\ item_index >= Len(a.flat_items)
       THEN Panic(b)
       ELSE [b EXCEPT !.local_edits =
                 IF collection_uid = None THEN @
                 ELSE set_edit(@, collection_uid[1],
                               At(a.flat_items, item_index).path, edited),
                      !.unsaved_edit = Some(<<edited, item_index>>)]

\* App::get_current_request_for_edit (app.rs:1426-1440)
get_current_request_for_edit(a) ==
    IF a.selected_item_index >= Len(a.flat_items) THEN None
    ELSE LET item == At(a.flat_items, a.selected_item_index)
         IN IF item.request = None THEN None
            ELSE Some(<<[name |-> item.name,
                         method |-> item.request[1].method,
                         url |-> url_to_string(item.request[1].url),
                         body |-> IF item.request[1].body = None THEN <<>>
                                  ELSE item.request[1].body[1]],
                        a.selected_item_index>>)

\* App::start_saving_edit (app.rs:1410-1418)
start_saving_edit(a) ==
    IF a.unsaved_edit = None THEN a
    ELSE [a EXCEPT !.pending_save =
              Some([edited |-> a.unsaved_edit[1][1],
                    item_index |-> a.unsaved_edit[1][2]]),
                   !.unsaved_edit = None,
                   !.input_mode = "Saving"]

\* App::cancel_saving (app.rs:1420-1424)
cancel_saving(a) ==
    [a EXCEPT !.pending_save = None, !.input_mode = "Normal"]

(***************************************************************************)
(* Requests pane (app.rs:1065-1127, 1442-1480).                            *)
(***************************************************************************)
\* App::toggle_folder
toggle_folder(a) ==
    IF a.flat_items = <<>> THEN a
    ELSE IF a.selected_item_index >= Len(a.flat_items) THEN Panic(a)
    ELSE
        LET item == At(a.flat_items, a.selected_item_index)
        IN IF ~item.is_folder THEN a
           ELSE flatten_items(
                    [a EXCEPT !.expanded_folders =
                        IF item.path \in @ THEN @ \ {item.path}
                        ELSE @ \cup {item.path}])

\* a select_request that never looks at the local edits
select_request_base(a) ==
    IF a.flat_items = <<>> THEN a
    ELSE IF a.selected_item_index >= Len(a.flat_items) THEN Panic(a)
    ELSE
        LET item == At(a.flat_items, a.selected_item_index)
        IN IF item.request = None THEN a
           ELSE save_last_state(
                    [a EXCEPT !.current_request = item.request,
                              !.unsaved_edit = None,
                              !.response = None,
                              !.json_viewer_state = None,
                              !.focused_pane = "Preview"])

\* App::select_request
select_request(a) ==
    IF a.flat_items = <<>> THEN a
    ELSE IF a.selected_item_index >= Len(a.flat_items) THEN Panic(a)
    ELSE
        LET item == At(a.flat_items, a.selected_item_index)
            local_edit == get_local_edit(a, item.path)
        IN IF item.request = None THEN a
           ELSE save_last_state(
                    [a EXCEPT
                        !.current_request =
                            IF local_edit # None
                            THEN Some(edited_request(local_edit[1],
                                          item.request[1].header))
                            ELSE item.request,
                        !.unsaved_edit =
                            IF local_edit # None
                            THEN Some(<<local_edit[1], a.selected_item_index>>)
                            ELSE None,
                        !.response = None,
                        !.json_viewer_state = None,
                        !.focused_pane = "Preview"])

\* App::move_up
move_up(a) ==
    IF a.focused_pane = "Collections"
    THEN IF a.selected_collection_index > 0
         THEN [a EXCEPT !.selected_collection_index = @ - 1] ELSE a
    ELSE IF a.focused_pane = "Requests"
    THEN IF a.selected_item_index > 0
         THEN save_last_state(update_preview_from_selection(
                  [a EXCEPT !.selected_item_index = @ - 1]))
         ELSE a
    ELSE a

\* App::move_down
move_down(a) ==
    IF a.focused_pane = "Collections"
    THEN IF a.flat_collections # <<>>
            /\ a.selected_collection_index < Len(a.flat_collections) - 1
         THEN [a EXCEPT !.selected_collection_index = @ + 1] ELSE a
    ELSE IF a.focused_pane = "Requests"
    THEN IF a.flat_items # <<>>
            /\ a.selected_item_index < Len(a.flat_items) - 1
         THEN save_last_state(update_preview_from_selection(
                  [a EXCEPT !.selected_item_index = @ + 1]))
         ELSE a
    ELSE a

(***************************************************************************)
(* The remote service behind PostmanClient (api/client.rs) and the save    *)
(* task (main.rs:88-187).                                                  *)
(***************************************************************************)
RemoteInit == [uid \in {"c1", "c2"} |->
                  IF uid = "c1" THEN TreeA ELSE <<LeafBoo>>]

\* client.get_collection (client.rs:62-84) when the service answers
get_collection(rem, collection_uid) ==
    IF collection_uid \in DOMAIN rem
    THEN Some([uid |-> collection_uid, item |-> rem[collection_uid]])
    ELSE None

RECURSIVE has_request_id(_, _)
has_request_id(items, req_id) ==
    \E i \in 1..Len(items) :
        IF items[i].kind = "Folder" THEN has_request_id(items[i].item, req_id)
        ELSE items[i].id = Some(req_id)

RECURSIVE put_request(_, _, _, _)
\* PUT /collections/{uid}/requests/{id} (client.rs:180-211): the service
\* replaces name and request of the request with that id
put_request(items, req_id, name, request) ==
    [i \in 1..Len(items) |->
        IF items[i].kind = "Folder"
        THEN [items[i] EXCEPT !.item = put_request(@, req_id, name, request)]
        ELSE IF items[i].id = Some(req_id)
        THEN [items[i] EXCEPT !.name = name, !.request = request]
        ELSE items[i]]

RECURSIVE update_request_at_path(_, _, _)
\* main.rs:137-187; the Result<()> with the updated items: None is Err
update_request_at_path(items, path, edited) ==
    IF path = <<>> THEN None
    ELSE
        LET index == path[1]
            remaining_path == Tail(path)
        IN IF index >= Len(items) THEN None
           ELSE
               LET it == At(items, index)
               IN IF remaining_path = <<>>
                  THEN IF it.kind = "Request"
                       THEN Some([items EXCEPT ![index + 1] =
                                [it EXCEPT
                                    !.name = edited.name,
                                    !.request = edited_request(edited,
                                                    it.request.header)]])
                       ELSE None
                  ELSE IF it.kind = "Folder"
                       THEN LET sub == update_request_at_path(
                                           it.item, remaining_path, edited)
                            IN IF sub = None THEN None
                               ELSE Some([items EXCEPT ![index + 1] =
                                        [it EXCEPT !.item = sub[1]]])
                       ELSE None

\* perform_save (main.rs:88-135) with the service answering every call:
\* [result, remote]; result is "panic", "err" or "ok"
perform_save(rem, t) ==
    IF t.collection = None THEN [result |-> "err", remote |-> rem]
    ELSE IF t.pending.item_index >= Len(t.flat_items)
    THEN [result |-> "panic", remote |-> rem]
    ELSE
        LET flat_item == At(t.flat_items, t.pending.item_index)
            header == IF flat_item.request = None THEN <<>>
                      ELSE flat_item.request[1].header
            uid == t.collection_uid
        IN IF flat_item.request_id # None
           THEN IF uid \in DOMAIN rem
                   /\ has_request_id(rem[uid], flat_item.request_id[1])
                THEN [result |-> "ok",
                      remote |-> [rem EXCEPT ![uid] =
                          put_request(@, flat_item.request_id[1],
                                      t.pending.edited.name,
                                      edited_request(t.pending.edited,
                                                     header))]]
                ELSE [result |-> "err", remote |-> rem]
           ELSE
               LET items == update_request_at_path(
                               t.collection[1].item, flat_item.path,
                               t.pending.edited)
               IN IF items = None \/ uid \notin DOMAIN rem
                  THEN [result |-> "err", remote |-> rem]
                  ELSE [result |-> "ok",
                        remote |-> [rem EXCEPT ![uid] = items[1]]]

\* run_app, `if app.input_mode == InputMode::Saving` up to the spawn
\* (main.rs:665-683): [app, task]
spawn_save(a) ==
    IF a.input_mode # "Saving" \/ a.pending_save = None
    THEN [app |-> a, task |-> None]
    ELSE IF a.selected_collection_index >= Len(a.collections)
    THEN [app |-> Panic([a EXCEPT !.pending_save = None]), task |-> None]
    ELSE
        LET pending == a.pending_save[1]
        IN [app |-> [a EXCEPT !.pending_save = None],
            task |-> Some(
                [saved_item_path |->
                     IF pending.item_index < Len(a.flat_items)
                     THEN Some(At(a.flat_items, pending.item_index).path)
                     ELSE None,
                 collection_uid |->
                     At(a.collections, a.selected_collection_index).uid,
                 collection |-> a.current_collection,
                 flat_items |-> a.flat_items,
                 pending |-> pending,
                 stage |-> "running",
                 updated |-> None])]

\* a handling of the save result that also collapses every folder
save_succeeded_reset(a, updated_collection, saved_item_path) ==
    LET b == flatten_items([a EXCEPT !.current_collection =
                                         Some(updated_collection),
                                     !.expanded_folders = {}])
        c == IF saved_item_path = None THEN b
             ELSE clear_local_edit(b, saved_item_path[1])
    IN IF b.panicked THEN b
       ELSE [update_preview_from_selection(c) EXCEPT !.input_mode = "Normal"]

\* run_app, `Handle save result`, Ok (main.rs:714-723, 731)
save_succeeded(a, updated_collection, saved_item_path) ==
    LET b == flatten_items([a EXCEPT !.current_collection =
                                         Some(updated_collection)])
        c == IF saved_item_path = None THEN b
             ELSE clear_local_edit(b, saved_item_path[1])
    IN IF b.panicked THEN b
       ELSE [update_preview_from_selection(c) EXCEPT !.input_mode = "Normal"]

\* run_app, `Handle save result`, Err (main.rs:724-731)
save_failed(a) == [a EXCEPT !.input_mode = "Normal"]

(***************************************************************************)
(* The new request dialog (app.rs:1491-1673) and insert_item_at_path       *)
(* (app.rs:2017-2045).  The text of the dialog is typed at its end;       *)
(* Backspace and the cursor keys of the dialog are left out.               *)
(***************************************************************************)
RECURSIVE insert_item_recursive(_, _, _)
\* the items after the push
insert_item_recursive(items, path, new_item) ==
    IF path = <<>> THEN Append(items, new_item)
    ELSE
        LET index == path[1]
            remaining_path == Tail(path)
        IN IF index >= Len(items) THEN Append(items, new_item)
           ELSE LET it == At(items, index)
                IN IF it.kind = "Folder"
                   THEN [items EXCEPT ![index + 1] =
                            [it EXCEPT !.item =
                                insert_item_recursive(@, remaining_path,
                                                      new_item)]]
                   ELSE Append(items, new_item)

\* an insert that puts the new node first in the root list
insert_item_at_path_front(items, path, new_item) == <<new_item>> \o items

\* an insert that always appends to the root list
insert_item_at_path_root(items, path, new_item) == Append(items, new_item)

insert_item_at_path(items, path, new_item) ==
    insert_item_recursive(items, path, new_item)

\* App::get_current_folder_path (app.rs:1509-1525); called with rows
get_current_folder_path(a) ==
    LET item == At(a.flat_items, a.selected_item_index)
    IN IF item.is_folder THEN item.path
       ELSE SubSeq(item.path, 1, Len(item.path) - 1)

\* App::start_new_request_dialog (app.rs:1491-1507)
start_new_request_dialog(a) ==
    IF a.current_collection = None THEN a
    ELSE IF a.flat_items # <<>> /\ a.selected_item_index >= Len(a.flat_items)
    THEN Panic(a)
    ELSE [a EXCEPT !.new_request_dialog =
                       Some([step |-> "Name", name |-> <<>>, url |-> <<>>,
                             target_folder_path |->
                                 IF a.flat_items = <<>> THEN <<>>
                                 ELSE get_current_folder_path(a)]),
                   !.input_mode = "TextInput"]

\* App::dialog_input_char (app.rs:1527-1537)
dialog_input_char(a, c) ==
    IF a.new_request_dialog = None THEN a
    ELSE [a EXCEPT !.new_request_dialog =
             Some(IF @[1].step = "Name"
                  THEN [@[1] EXCEPT !.name = Append(@, c)]
                  ELSE [@[1] EXCEPT !.url = Append(@, c)])]

\* App::dialog_next_step (app.rs:1570-1592): the state and the bool returned
dialog_next_step(a) ==
    IF a.new_request_dialog = None THEN [app |-> a, ready |-> FALSE]
    ELSE LET dialog == a.new_request_dialog[1]
         IN IF dialog.step = "Name"
            THEN [app |-> IF dialog.name = <<>> THEN a
                          ELSE [a EXCEPT !.new_request_dialog =
                                   Some([dialog EXCEPT !.step = "Url"])],
                  ready |-> FALSE]
            ELSE [app |-> a, ready |-> TRUE]

\* App::cancel_dialog (app.rs:1594-1598)
cancel_dialog(a) ==
    [a EXCEPT !.new_request_dialog = None, !.input_mode = "Normal"]

\* the Item::Request that create_new_request builds (app.rs:1622-1638)
new_request_item(dialog) ==
    RequestItem(None, dialog.name,
                MkRequest(GET,
                          IF dialog.url = <<>> THEN UrlEmpty
                          ELSE UrlSimple(dialog.url),
                          <<>>, None))

\* App::create_new_request (app.rs:1600-1673) against the service rem:
\* [app, remote].  updated says whether update_collection succeeds and
\* reloaded whether the get_collection after it does.
create_new_request(a, rem, updated, reloaded) ==
    IF a.new_request_dialog = None THEN [app |-> a, remote |-> rem]
    ELSE
        LET dialog == a.new_request_dialog[1]
            b == [a EXCEPT !.new_request_dialog = None,
                           !.input_mode = "Normal"]
        IN IF a.current_collection = None THEN [app |-> b, remote |-> rem]
           ELSE IF a.selected_collection_index >= Len(a.collections)
           THEN [app |-> Panic(b), remote |-> rem]
           ELSE
               LET collection_uid ==
                       At(a.collections, a.selected_collection_index).uid
                   items == insert_item_at_path(
                                a.current_collection[1].item,
                                dialog.target_folder_path,
                                new_request_item(dialog))
                   served == [rem EXCEPT ![collection_uid] = items]
               IN IF ~updated \/ collection_uid \notin DOMAIN rem
                  THEN [app |-> b, remote |-> rem]
                  ELSE IF ~reloaded THEN [app |-> b, remote |-> served]
                  ELSE [app |-> flatten_items(
                                    [b EXCEPT !.current_collection =
                                        get_collection(served, collection_uid)]),
                        remote |-> served]

(***************************************************************************)
(* The JSON viewer (ui/json_viewer.rs).  A serde_json Value is a record    *)
(* with its kind; the members of an object come in the map's iteration     *)
(* order and the elements of an array carry no key.  A node id is the      *)
(* sequence of path segments from Root.  tree_state is the TreeState of    *)
(* tui_tree_widget: the set of opened ids and the selected id (empty when  *)
(* nothing is selected).                                                   *)
(***************************************************************************)
JsonNull == [kind |-> "Null", bool |-> FALSE, num |-> 0, str |-> <<>>,
             children |-> <<>>]
JsonBool(b) == [JsonNull EXCEPT !.kind = "Bool", !.bool = b]
JsonNumber(n) == [JsonNull EXCEPT !.kind = "Number", !.num = n]
JsonString(s) == [JsonNull EXCEPT !.kind = "String", !.str = s]
JsonArray(values) ==
    [JsonNull EXCEPT !.kind = "Array",
                     !.children = [i \in 1..Len(values) |->
                                      [key |-> <<>>, value |-> values[i]]]]
JsonObject(members) == [JsonNull EXCEPT !.kind = "Object", !.children = members]
Member(k, v) == [key |-> k, value |-> v]

\* enum JsonPathSegment (json_viewer.rs:8-13)
Root == [seg |-> "Root", key |-> <<>>, index |-> 0]
Key(k) == [seg |-> "Key", key |-> k, index |-> 0]
Index(i) == [seg |-> "Index", key |-> <<>>, index |-> i]

DigitChar(d) ==
    CASE d = 0 -> "0" [] d = 1 -> "1" [] d = 2 -> "2" [] d = 3 -> "3"
      [] d = 4 -> "4" [] d = 5 -> "5" [] d = 6 -> "6" [] d = 7 -> "7"
      [] d = 8 -> "8" [] OTHER -> "9"

RECURSIVE number_to_string(_)
\* Number::to_string of a non-negative integer
number_to_string(n) ==
    IF n < 10 THEN <<DigitChar(n)>>
    ELSE Append(number_to_string(n \div 10), DigitChar(n % 10))

\* the segment that leads from a container to its i-th child (0-based)
child_segment(value, i) ==
    IF value.kind = "Object" THEN Key(At(value.children, i).key) ELSE Index(i)

\* TreeState::open
open(tree_state, identifier) ==
    IF identifier = <<>> THEN tree_state
    ELSE [tree_state EXCEPT !.opened = @ \cup {identifier}]

\* TreeState::close_all
close_all(tree_state) == [tree_state EXCEPT !.opened = {}]

\* TreeState::select
select(tree_state, identifier) == [tree_state EXCEPT !.selected = identifier]

\* TreeState::key_right
key_right(tree_state) ==
    IF tree_state.selected = <<>> THEN tree_state
    ELSE open(tree_state, tree_state.selected)

\* TreeState::key_left: closes the selected node, or moves to its parent
key_left(tree_state) ==
    IF tree_state.selected \in tree_state.opened
    THEN [tree_state EXCEPT !.opened = @ \ {tree_state.selected}]
    ELSE IF tree_state.selected = <<>> THEN tree_state
    ELSE [tree_state EXCEPT !.selected = SubSeq(@, 1, Len(@) - 1)]

\* TreeState::toggle_selected
toggle_selected(tree_state) ==
    IF tree_state.selected = <<>> THEN tree_state
    ELSE IF tree_state.selected \in tree_state.opened
    THEN [tree_state EXCEPT !.opened = @ \ {tree_state.selected}]
    ELSE open(tree_state, tree_state.selected)

RECURSIVE rendered_from(_, _, _, _)
RECURSIVE rendered_identifiers(_, _, _)
\* the ids of the rows the tree widget lays out for build_tree_items: a
\* node, then its children while the node is opened
rendered_identifiers(value, path, opened) ==
    <<path>> \o (IF path \in opened
                 THEN rendered_from(value, 0, path, opened) ELSE <<>>)

rendered_from(value, i, path, opened) ==
    IF i >= Len(value.children) THEN <<>>
    ELSE rendered_identifiers(At(value.children, i).value,
                              Append(path, child_segment(value, i)), opened)
         \o rendered_from(value, i + 1, path, opened)

\* the index of an id among the rendered rows, as an Option
rendered_index(rows, identifier) ==
    LET hits == {i \in 0..(Len(rows) - 1) : At(rows, i) = identifier}
    IN IF hits = {} THEN None
       ELSE Some(CHOOSE i \in hits : \A j \in hits : i <= j)

\* TreeState::select_relative over the rows of the last render
select_row(tree_state, rows, new_index) ==
    LET last == IF rows = <<>> THEN 0 ELSE Len(rows) - 1
        clamped == IF new_index < last THEN new_index ELSE last
    IN select(tree_state, IF clamped < Len(rows) THEN At(rows, clamped)
                          ELSE <<>>)

\* TreeState::key_down
key_down(tree_state, rows) ==
    LET current == rendered_index(rows, tree_state.selected)
    IN select_row(tree_state, rows,
                  IF current = None THEN 0 ELSE current[1] + 1)

\* TreeState::key_up
key_up(tree_state, rows) ==
    LET current == rendered_index(rows, tree_state.selected)
    IN select_row(tree_state, rows,
                  IF current = None THEN USIZE_MAX
                  ELSE IF current[1] = 0 THEN 0 ELSE current[1] - 1)

\* JsonViewerState::new over a parsed value
viewer_new(json) ==
    [tree_state |-> [opened |-> {}, selected |-> <<>>],
     json |-> json,
     search_query |-> <<>>,
     search_matches |-> <<>>,
     current_match_index |-> 0,
     needs_expand |-> TRUE]

\* JsonViewerState::build_tree_items as the widget renders it
viewer_rows(v) == rendered_identifiers(v.json, <<Root>>, v.tree_state.opened)

\* JsonViewerState::up
viewer_up(v) == [v EXCEPT !.tree_state = key_up(@, viewer_rows(v))]

\* JsonViewerState::down
viewer_down(v) == [v EXCEPT !.tree_state = key_down(@, viewer_rows(v))]

\* JsonViewerState::expand
viewer_expand(v) == [v EXCEPT !.tree_state = key_right(@)]

\* JsonViewerState::collapse
viewer_collapse(v) == [v EXCEPT !.tree_state = key_left(@)]

\* JsonViewerState::toggle
viewer_toggle(v) == [v EXCEPT !.tree_state = toggle_selected(@)]

RECURSIVE collect_expandable_from(_, _, _)
RECURSIVE collect_expandable_paths(_, _)
\* JsonViewerState::collect_expandable_paths: the paths pushed, in order
collect_expandable_paths(value, path) ==
    IF value.kind \in {"Object", "Array"}
    THEN <<path>> \o collect_expandable_from(value, 0, path)
    ELSE <<>>

collect_expandable_from(value, i, path) ==
    IF i >= Len(value.children) THEN <<>>
    ELSE collect_expandable_paths(At(value.children, i).value,
                                  Append(path, child_segment(value, i)))
         \o collect_expandable_from(value, i + 1, path)

RECURSIVE open_each(_, _, _)
\* `for path in paths { tree_state.open(path) }`, from index i on
open_each(tree_state, paths, i) ==
    IF i >= Len(paths) THEN tree_state
    ELSE open_each(open(tree_state, At(paths, i)), paths, i + 1)

\* an expand_all that starts from a closed tree
expand_all_fresh(v) ==
    LET paths_to_open == collect_expandable_paths(v.json, <<Root>>)
    IN [v EXCEPT !.tree_state = open_each(close_all(@), paths_to_open, 0)]

\* JsonViewerState::expand_all
expand_all(v) ==
    LET paths_to_open == collect_expandable_paths(v.json, <<Root>>)
    IN [v EXCEPT !.tree_state = open_each(@, paths_to_open, 0)]

\* a collapse_all that does not reopen the root
collapse_all_closed(v) == [v EXCEPT !.tree_state = close_all(@)]

\* JsonViewerState::collapse_all
collapse_all(v) == [v EXCEPT !.tree_state = open(close_all(@), <<Root>>)]

\* JsonViewerState::maybe_expand_all, called by every render
maybe_expand_all(v) ==
    IF v.needs_expand THEN [expand_all(v) EXCEPT !.needs_expand = FALSE]
    ELSE v

RECURSIVE find_from(_, _, _, _)
RECURSIVE find_matches(_, _, _)
\* JsonViewerState::find_matches: the paths pushed to search_matches
find_matches(value, path, query) ==
    IF value.kind \in {"Object", "Array"}
    THEN find_from(value, 0, path, query)
    ELSE <<>>

\* a search that also matches booleans and null by their text
find_from_text(value, i, path, query) ==
    IF i >= Len(value.children) THEN <<>>
    ELSE
        LET key == At(value.children, i).key
            val == At(value.children, i).value
            child_path == Append(path, child_segment(value, i))
            text == CASE val.kind = "String" -> to_lowercase(val.str)
                      [] val.kind = "Number" -> number_to_string(val.num)
                      [] val.kind = "Bool" ->
                             IF val.bool THEN <<"t", "r", "u", "e">>
                             ELSE <<"f", "a", "l", "s", "e">>
                      [] val.kind = "Null" -> <<"n", "u", "l", "l">>
                      [] OTHER -> <<>>
            hit == IF \/ value.kind = "Object"
                            /\ contains(to_lowercase(key), query)
                      \/ text # <<>> /\ contains(text, query)
                   THEN <<child_path>>
                   ELSE <<>>
        IN hit \o find_matches(val, child_path, query)
               \o find_from(value, i + 1, path, query)

find_from(value, i, path, query) ==
    IF i >= Len(value.children) THEN <<>>
    ELSE
        LET key == At(value.children, i).key
            val == At(value.children, i).value
            child_path == Append(path, child_segment(value, i))
            by_value ==
                IF val.kind = "String"
                THEN IF contains(to_lowercase(val.str), query)
                     THEN <<child_path>> ELSE <<>>
                ELSE IF val.kind = "Number"
                THEN IF contains(number_to_string(val.num), query)
                     THEN <<child_path>> ELSE <<>>
                ELSE <<>>
            hit == IF value.kind = "Object"
                      /\ contains(to_lowercase(key), query)
                   THEN <<child_path>>
                   ELSE by_value
        IN hit \o find_matches(val, child_path, query)
               \o find_from(value, i + 1, path, query)

RECURSIVE open_prefixes(_, _, _)
\* `for i in 1..path.len() { tree_state.open(path[..i]) }`, from i on
open_prefixes(tree_state, path, i) ==
    IF i >= Len(path) THEN tree_state
    ELSE open_prefixes(open(tree_state, SubSeq(path, 1, i)), path, i + 1)

\* JsonViewerState::jump_to_match
jump_to_match(v, index) ==
    IF index >= Len(v.search_matches) THEN v
    ELSE LET path == At(v.search_matches, index)
         IN [v EXCEPT !.tree_state =
                select(open_prefixes(@, path, 1), path)]

\* JsonViewerState::update_search_matches
viewer_update_search_matches(v) ==
    LET cleared == [v EXCEPT !.search_matches = <<>>,
                             !.current_match_index = 0]
    IN IF v.search_query = <<>> THEN cleared
       ELSE LET query == to_lowercase(v.search_query)
                found == [cleared EXCEPT !.search_matches =
                             find_matches(v.json, <<Root>>, query)]
            IN IF found.search_matches # <<>> THEN jump_to_match(found, 0)
               ELSE found

\* JsonViewerState::start_search
viewer_start_search(v) ==
    [v EXCEPT !.search_query = <<>>, !.search_matches = <<>>,
              !.current_match_index = 0]

\* JsonViewerState::search_input
viewer_search_input(v, c) ==
    viewer_update_search_matches([v EXCEPT !.search_query = Append(@, c)])

\* JsonViewerState::search_backspace
viewer_search_backspace(v) ==
    viewer_update_search_matches(
        [v EXCEPT !.search_query =
            IF @ = <<>> THEN @ ELSE SubSeq(@, 1, Len(@) - 1)])

\* JsonViewerState::next_match
viewer_next_match(v) ==
    IF v.search_matches = <<>> THEN v
    ELSE LET next == (v.current_match_index + 1) % Len(v.search_matches)
         IN jump_to_match([v EXCEPT !.current_match_index = next], next)

\* a prev_match that stops at the first match
viewer_prev_match_stop(v) ==
    IF v.search_matches = <<>> THEN v
    ELSE LET prev == IF v.current_match_index = 0 THEN 0
                     ELSE v.current_match_index - 1
         IN jump_to_match([v EXCEPT !.current_match_index = prev], prev)

\* JsonViewerState::prev_match
viewer_prev_match(v) ==
    IF v.search_matches = <<>> THEN v
    ELSE LET prev == IF v.current_match_index = 0
                     THEN Len(v.search_matches) - 1
                     ELSE v.current_match_index - 1
         IN jump_to_match([v EXCEPT !.current_match_index = prev], prev)

\* the response bodies the service can answer with
JsonDoc ==
    JsonObject(<<Member(<<"a">>, JsonString(<<"a", "B">>)),
                 Member(<<"k">>, JsonArray(<<JsonNumber(12), JsonBool(TRUE),
                                             JsonNull,
                                             JsonObject(<<Member(<<"b">>,
                                                 JsonNumber(2))>>)>>))>>)
JsonList == JsonArray(<<JsonString(<<"a", "2">>), JsonNumber(12),
                        JsonString(<<"B", "2">>)>>)
JsonText == JsonString(<<"a", "b">>)
\* booleans and null as object members and as array elements
JsonFlags ==
    JsonObject(<<Member(<<"a">>, JsonBool(TRUE)),
                 Member(<<"f">>, JsonBool(FALSE)),
                 Member(<<"B">>, JsonNull),
                 Member(<<"z">>, JsonArray(<<JsonBool(FALSE), JsonNull>>))>>)
ResponseBodies == {"doc", "list", "text", "flags", "html"}

\* serde_json::from_str(json_str).ok() (json_viewer.rs:65): the value a
\* body parses to, None for a body that is not JSON
from_str(body) ==
    CASE body = "doc" -> Some(JsonDoc)
      [] body = "list" -> Some(JsonList)
      [] body = "text" -> Some(JsonText)
      [] body = "flags" -> Some(JsonFlags)
      [] OTHER -> None

\* App::execute_current_request (app.rs:1276-1323); result is the body of
\* the response, None when the request failed
execute_current_request(a, result) ==
    IF a.current_request = None THEN a
    ELSE IF result = None THEN [a EXCEPT !.request_executing = FALSE]
    ELSE LET json == from_str(result[1])
         IN [a EXCEPT !.json_viewer_state =
                          IF json = None THEN None
                          ELSE Some(viewer_new(json[1])),
                      !.response = result,
                      !.request_executing = FALSE]

\* ui::render (layout.rs:394-421): the first render of a viewer expands it
render(a) ==
    IF a.json_viewer_state = None THEN a
    ELSE [a EXCEPT !.json_viewer_state = Some(maybe_expand_all(@[1]))]

\* App::json_viewer_up
json_viewer_up(a) ==
    IF a.json_viewer_state = None THEN a
    ELSE [a EXCEPT !.json_viewer_state = Some(viewer_up(@[1]))]

\* App::json_viewer_down
json_viewer_down(a) ==
    IF a.json_viewer_state = None THEN a
    ELSE [a EXCEPT !.json_viewer_state = Some(viewer_down(@[1]))]

\* App::json_viewer_expand
json_viewer_expand(a) ==
    IF a.json_viewer_state = None THEN a
    ELSE [a EXCEPT !.json_viewer_state = Some(viewer_expand(@[1]))]

\* App::json_viewer_collapse
json_viewer_collapse(a) ==
    IF a.json_viewer_state = None THEN a
    ELSE [a EXCEPT !.json_viewer_state = Some(viewer_collapse(@[1]))]

\* App::json_viewer_toggle
json_viewer_toggle(a) ==
    IF a.json_viewer_state = None THEN a
    ELSE [a EXCEPT !.json_viewer_state = Some(viewer_toggle(@[1]))]

\* App::json_viewer_expand_all
json_viewer_expand_all(a) ==
    IF a.json_viewer_state = None THEN a
    ELSE [a EXCEPT !.json_viewer_state = Some(expand_all(@[1]))]

\* App::json_viewer_collapse_all
json_viewer_collapse_all(a) ==
    IF a.json_viewer_state = None THEN a
    ELSE [a EXCEPT !.json_viewer_state = Some(collapse_all(@[1]))]

\* App::json_search_start
json_search_start(a) ==
    IF a.json_viewer_state = None THEN a
    ELSE [a EXCEPT !.json_viewer_state = Some(viewer_start_search(@[1])),
                   !.input_mode = "JsonSearch"]

\* App::json_search_input
json_search_input(a, c) ==
    IF a.json_viewer_state = None THEN a
    ELSE [a EXCEPT !.json_viewer_state = Some(viewer_search_input(@[1], c))]

\* App::json_search_backspace
json_search_backspace(a) ==
    IF a.json_viewer_state = None THEN a
    ELSE [a EXCEPT !.json_viewer_state = Some(viewer_search_backspace(@[1]))]

\* App::json_search_confirm
json_search_confirm(a) == [a EXCEPT !.input_mode = "Normal"]

\* App::json_search_cancel
json_search_cancel(a) ==
    [a EXCEPT !.json_viewer_state =
                  IF @ = None THEN @
                  ELSE Some([@[1] EXCEPT !.search_query = <<>>,
                                         !.search_matches = <<>>]),
              !.input_mode = "Normal"]

\* App::json_search_next
json_search_next(a) ==
    IF a.json_viewer_state = None THEN a
    ELSE [a EXCEPT !.json_viewer_state = Some(viewer_next_match(@[1]))]

\* App::json_search_prev
json_search_prev(a) ==
    IF a.json_viewer_state = None THEN a
    ELSE [a EXCEPT !.json_viewer_state = Some(viewer_prev_match(@[1]))]

(***************************************************************************)
(* run_app (main.rs:248-736): one action per key handler of the event      *)
(* loop, each with everything the same loop iteration does after it.       *)
(***************************************************************************)
Panes == {"Collections", "Requests", "Preview"}
QueryChars == {"o", "a", "B"}
JsonQueryChars == {"a", "B", "2"}
DialogChars == {"n"}

\* what the user can leave in the editor (main.rs:189-246): one of two
\* texts, never the one the editor was opened with
EditW == [name |-> <<"b", "a", "z">>, method |-> POST, url |-> <<"w">>,
          body |-> <<>>]
EditX == [name |-> <<"b", "a", "z">>, method |-> GET, url |-> <<>>,
          body |-> <<"x">>]
EditChoices(request) == {EditW, EditX} \ {request}

Init ==
    /\ app = NewApp
    /\ remote = RemoteInit
    /\ task = None
    /\ updates = 0

\* a key dispatch that does not tell Saving from Normal
NormalOrSaving ==
    /\ ~app.panicked
    /\ ~app.request_executing
    /\ app.input_mode \in {"Normal", "Saving"}

Normal ==
    /\ ~app.panicked
    /\ ~app.request_executing
    /\ app.input_mode = "Normal"

\* the keys of the Response pane go to the JSON viewer while it holds one
InViewer == app.focused_pane = "Response" /\ app.json_viewer_state # None

\* app.load_collections (app.rs:349-421) then restore_last_state, which
\* returns at once for the fresh Config (last_state is None)
Startup ==
    /\ app = NewApp
    /\ \/ app' = flatten_collections([app EXCEPT !.collections = Collections])
       \/ app' = app
    /\ UNCHANGED <<remote, task, updates>>

\* KeyCode::Char('1' | '2' | '3') (main.rs:275-283)
KeyFocus ==
    /\ Normal
    /\ \E pane \in Panes : app' = [app EXCEPT !.focused_pane = pane]
    /\ UNCHANGED <<remote, task, updates>>

\* KeyCode::Tab (main.rs:432-446)
KeyTab ==
    /\ Normal
    /\ app' = [app EXCEPT !.focused_pane =
                  IF @ = "Collections" THEN "Requests"
                  ELSE IF @ = "Requests" THEN "Preview"
                  ELSE IF @ = "Preview" /\ app.response # None THEN "Response"
                  ELSE "Collections"]
    /\ UNCHANGED <<remote, task, updates>>

\* KeyCode::Char('j') (main.rs:290-296)
KeyDown ==
    /\ Normal
    /\ ~InViewer
    /\ app' = move_down(app)
    /\ UNCHANGED <<remote, task, updates>>

\* KeyCode::Char('k') (main.rs:297-303)
KeyUp ==
    /\ Normal
    /\ ~InViewer
    /\ app' = move_up(app)
    /\ UNCHANGED <<remote, task, updates>>

\* KeyCode::Enter, FocusedPane::Collections (main.rs:334-336): App::
\* start_collection_load (app.rs:922-938), then load_collection_data at the
\* bottom of the same loop iteration (main.rs:657-663)
EnterCollections ==
    /\ Normal
    /\ app.focused_pane = "Collections"
    /\ app.flat_collections # <<>>
    /\ IF app.selected_collection_index >= Len(app.flat_collections)
       THEN app' = Panic(app)
       ELSE LET flat_collection ==
                    At(app.flat_collections, app.selected_collection_index)
                loading == [app EXCEPT !.collection_loading =
                                           Some(flat_collection.name)]
            IN IF flat_collection.is_favorites_folder
               THEN /\ app' = toggle_collections_favorites_folder(app)
               ELSE /\ \/ app' = load_collection_data(loading,
                                     get_collection(remote, flat_collection.uid))
                       \/ app' = load_collection_data(loading, None)
    /\ UNCHANGED <<remote, task, updates>>

\* KeyCode::Enter, FocusedPane::Requests (main.rs:337-345)
EnterRequests ==
    /\ Normal
    /\ app.focused_pane = "Requests"
    /\ app.selected_item_index < Len(app.flat_items)
    /\ IF At(app.flat_items, app.selected_item_index).is_folder
       THEN app' = toggle_folder(app)
       ELSE app' = select_request(app)
    /\ UNCHANGED <<remote, task, updates>>

\* KeyCode::Char('E') (main.rs:378-396)
KeyEditUpTo(max_edits) ==
    /\ Normal
    /\ get_current_request_for_edit(app) # None
    /\ LET got == get_current_request_for_edit(app)[1]
           uid == get_current_collection_uid(app)
       IN /\ \/ uid = None
             \/ Len(app.local_edits) < max_edits
             \/ get_local_edit(app, At(app.flat_items, got[2]).path) # None
          /\ \E edited \in EditChoices(got[1]) :
                 app' = store_local_edit(app, edited, got[2])
    /\ UNCHANGED <<remote, task, updates>>

KeyEdit == KeyEditUpTo(MaxEdits)

\* KeyCode::Char('S') (main.rs:398-400) and the spawn of the save task in
\* the same loop iteration (main.rs:665-683)
KeySave ==
    /\ Normal
    /\ LET s == spawn_save(start_saving_edit(app))
       IN app' = s.app /\ task' = s.task
    /\ UNCHANGED <<remote, updates>>

\* KeyCode::Char('f') (main.rs:406-408)
KeyFavoriteUpTo(max_favs) ==
    /\ Normal
    /\ app' = toggle_favorite(app)
    /\ Len(app'.favorite_requests) <= max_favs
    /\ UNCHANGED <<remote, task, updates>>

KeyFavorite == KeyFavoriteUpTo(MaxFavs)

\* KeyCode::Char('/') (main.rs:410-416)
KeySlash ==
    /\ Normal
    /\ ~InViewer
    /\ app' = start_search(app)
    /\ UNCHANGED <<remote, task, updates>>

\* KeyCode::Char('n') (main.rs:417-423)
KeyNext ==
    /\ Normal
    /\ ~InViewer
    /\ app' = next_match(app)
    /\ UNCHANGED <<remote, task, updates>>

\* KeyCode::Char('N') (main.rs:424-430)
KeyPrev ==
    /\ Normal
    /\ ~InViewer
    /\ app' = prev_match(app)
    /\ UNCHANGED <<remote, task, updates>>

InSearch == ~app.panicked /\ app.input_mode = "Search"

\* InputMode::Search, KeyCode::Char(c) (main.rs:498-500)
SearchChar ==
    /\ InSearch
    /\ Len(app.search_query) < MaxQueryLen
    /\ \E c \in QueryChars : app' = search_input_char(app, c)
    /\ UNCHANGED <<remote, task, updates>>

\* InputMode::Search, KeyCode::Backspace (main.rs:495-497)
SearchBackspace ==
    /\ InSearch
    /\ app' = search_backspace(app)
    /\ UNCHANGED <<remote, task, updates>>

\* InputMode::Search, KeyCode::Enter (main.rs:492-494)
SearchEnter ==
    /\ InSearch
    /\ app' = confirm_search(app)
    /\ UNCHANGED <<remote, task, updates>>

\* InputMode::Search, KeyCode::Esc (main.rs:489-491)
SearchEsc ==
    /\ InSearch
    /\ app' = cancel_search(app)
    /\ UNCHANGED <<remote, task, updates>>

\* the spawned task runs perform_save to its end (main.rs:681-683); a
\* network failure may come before the update or after it (at the reload)
TaskRun ==
    /\ task # None
    /\ task[1].stage = "running"
    /\ LET served == perform_save(remote, task[1])
           uid == task[1].collection_uid
       IN \/ /\ remote' = served.remote
             /\ task' = Some([task[1] EXCEPT
                    !.stage = served.result,
                    !.updated = IF served.result = "ok"
                                THEN get_collection(served.remote, uid)
                                ELSE None])
          \/ /\ served.result = "ok"
             /\ remote' \in {remote, served.remote}
             /\ task' = Some([task[1] EXCEPT !.stage = "err"])
    /\ updates' = IF remote' = remote THEN updates ELSE updates + 1
    /\ updates' <= MaxUpdates
    /\ UNCHANGED app

\* the poll loop reads KeyCode::Esc (main.rs:688-695)
SaveEsc ==
    /\ task # None
    /\ app' = cancel_saving(app)
    /\ task' = None
    /\ UNCHANGED <<remote, updates>>

\* the poll loop sees save_handle.is_finished() (main.rs:699-733)
SaveFinished ==
    /\ task # None
    /\ task[1].stage # "running"
    /\ app' = IF task[1].stage = "ok"
              THEN save_succeeded(app, task[1].updated[1],
                                  task[1].saved_item_path)
              ELSE IF task[1].stage = "err" THEN save_failed(app)
              ELSE app
    /\ task' = None
    /\ UNCHANGED <<remote, updates>>

\* App::is_destructive_method (app.rs:1239-1244)
is_destructive_method(method) ==
    to_uppercase(method) \in {POST, PUT, DELETE, PATCH}

\* a confirmation that is asked for POST alone, as it is spelled
start_execute_confirmation_post(a) ==
    IF a.current_request # None /\ a.current_request[1].method = POST
    THEN [a EXCEPT
             !.pending_execute =
                 Some([method |-> a.current_request[1].method,
                       url |-> url_to_string(a.current_request[1].url),
                       name |-> IF a.selected_item_index < Len(a.flat_items)
                                THEN At(a.flat_items,
                                        a.selected_item_index).name
                                ELSE <<"U", "n", "k", "n", "o", "w", "n">>]),
             !.input_mode = "ExecuteConfirm"]
    ELSE a

\* App::start_execute_confirmation (app.rs:1247-1267); it returns true when
\* it leaves the app in ExecuteConfirm.  No environment variable is defined,
\* so substitute_variables leaves the url as it is.
start_execute_confirmation(a) ==
    IF a.current_request # None
       /\ is_destructive_method(to_uppercase(a.current_request[1].method))
    THEN [a EXCEPT
             !.pending_execute =
                 Some([method |-> to_uppercase(a.current_request[1].method),
                       url |-> url_to_string(a.current_request[1].url),
                       name |-> IF a.selected_item_index < Len(a.flat_items)
                                THEN At(a.flat_items,
                                        a.selected_item_index).name
                                ELSE <<"U", "n", "k", "n", "o", "w", "n">>]),
             !.input_mode = "ExecuteConfirm"]
    ELSE a

\* App::cancel_execute_confirmation (app.rs:1270-1274)
cancel_execute_confirmation(a) ==
    [a EXCEPT !.pending_execute = None, !.input_mode = "Normal"]

\* KeyCode::Char('e'), and KeyCode::Enter in the Preview pane
\* (main.rs:346-357, 366-377), up to the await of execute_current_request:
\* the request is on its way while request_executing is set
KeyExecute ==
    /\ Normal
    /\ app.current_request # None
    /\ LET asked == start_execute_confirmation(app)
       IN IF asked.input_mode = "ExecuteConfirm" THEN app' = asked
          ELSE app' = [app EXCEPT !.request_executing = TRUE]
    /\ UNCHANGED <<remote, task, updates>>

InExecuteConfirm ==
    /\ ~app.panicked
    /\ ~app.request_executing
    /\ app.input_mode = "ExecuteConfirm"

\* InputMode::ExecuteConfirm, 'y' | 'Y' | Enter (main.rs:630-637), up to
\* the await
ExecuteYes ==
    /\ InExecuteConfirm
    /\ app' = [app EXCEPT !.pending_execute = None,
                          !.input_mode = "Normal",
                          !.request_executing = TRUE]
    /\ UNCHANGED <<remote, task, updates>>

\* the awaited execute_current_request returns (main.rs:353, 372, 637),
\* with the render of the next loop iteration; no key is read before it
ExecuteDone ==
    /\ ~app.panicked
    /\ app.request_executing
    /\ \E result \in {None} \cup {Some(b) : b \in ResponseBodies} :
           app' = render(execute_current_request(app, result))
    /\ UNCHANGED <<remote, task, updates>>

\* InputMode::ExecuteConfirm, 'n' | 'N' | Esc (main.rs:639-641)
ExecuteNo ==
    /\ InExecuteConfirm
    /\ app' = cancel_execute_confirmation(app)
    /\ UNCHANGED <<remote, task, updates>>

\* KeyCode::Char('4') (main.rs:284-288)
Key4 ==
    /\ Normal
    /\ app.response # None
    /\ app' = [app EXCEPT !.focused_pane = "Response"]
    /\ UNCHANGED <<remote, task, updates>>

\* KeyCode::Char('j') in the viewer (main.rs:290-296)
JsonDown ==
    /\ Normal
    /\ InViewer
    /\ app' = json_viewer_down(app)
    /\ UNCHANGED <<remote, task, updates>>

\* KeyCode::Char('k') in the viewer (main.rs:297-303)
JsonUp ==
    /\ Normal
    /\ InViewer
    /\ app' = json_viewer_up(app)
    /\ UNCHANGED <<remote, task, updates>>

\* KeyCode::Char('h') (main.rs:305-309)
JsonLeft ==
    /\ Normal
    /\ InViewer
    /\ app' = json_viewer_collapse(app)
    /\ UNCHANGED <<remote, task, updates>>

\* KeyCode::Char('l') (main.rs:310-314)
JsonRight ==
    /\ Normal
    /\ InViewer
    /\ app' = json_viewer_expand(app)
    /\ UNCHANGED <<remote, task, updates>>

\* KeyCode::Char('H') (main.rs:316-320)
JsonCollapseAll ==
    /\ Normal
    /\ InViewer
    /\ app' = json_viewer_collapse_all(app)
    /\ UNCHANGED <<remote, task, updates>>

\* KeyCode::Char('L') (main.rs:321-325)
JsonExpandAll ==
    /\ Normal
    /\ InViewer
    /\ app' = json_viewer_expand_all(app)
    /\ UNCHANGED <<remote, task, updates>>

\* KeyCode::Enter, FocusedPane::Response (main.rs:358-363)
JsonEnter ==
    /\ Normal
    /\ InViewer
    /\ app' = json_viewer_toggle(app)
    /\ UNCHANGED <<remote, task, updates>>

\* KeyCode::Char('/') in the viewer (main.rs:410-416)
JsonSlash ==
    /\ Normal
    /\ InViewer
    /\ app' = json_search_start(app)
    /\ UNCHANGED <<remote, task, updates>>

\* KeyCode::Char('n') in the viewer (main.rs:417-423)
JsonNext ==
    /\ Normal
    /\ InViewer
    /\ app' = json_search_next(app)
    /\ UNCHANGED <<remote, task, updates>>

\* KeyCode::Char('N') in the viewer (main.rs:424-430)
JsonPrev ==
    /\ Normal
    /\ InViewer
    /\ app' = json_search_prev(app)
    /\ UNCHANGED <<remote, task, updates>>

InJsonSearch == ~app.panicked /\ app.input_mode = "JsonSearch"

\* InputMode::JsonSearch, KeyCode::Char(c) (main.rs:515-517)
JsonSearchChar ==
    /\ InJsonSearch
    /\ app.json_viewer_state # None
    /\ Len(app.json_viewer_state[1].search_query) < MaxJsonQueryLen
    /\ \E c \in JsonQueryChars : app' = json_search_input(app, c)
    /\ UNCHANGED <<remote, task, updates>>

\* InputMode::JsonSearch, KeyCode::Backspace (main.rs:512-514)
JsonSearchBackspace ==
    /\ InJsonSearch
    /\ app' = json_search_backspace(app)
    /\ UNCHANGED <<remote, task, updates>>

\* InputMode::JsonSearch, KeyCode::Enter (main.rs:509-511)
JsonSearchEnter ==
    /\ InJsonSearch
    /\ app' = json_search_confirm(app)
    /\ UNCHANGED <<remote, task, updates>>

\* InputMode::JsonSearch, KeyCode::Esc (main.rs:506-508)
JsonSearchEsc ==
    /\ InJsonSearch
    /\ app' = json_search_cancel(app)
    /\ UNCHANGED <<remote, task, updates>>

\* KeyCode::Char('a') (main.rs:402-404)
KeyAdd ==
    /\ Normal
    /\ app' = start_new_request_dialog(app)
    /\ UNCHANGED <<remote, task, updates>>

InDialog == ~app.panicked /\ app.input_mode = "TextInput"

\* InputMode::TextInput, KeyCode::Char(c) (main.rs:480-482)
DialogChar ==
    /\ InDialog
    /\ app.new_request_dialog # None
    /\ LET dialog == app.new_request_dialog[1]
       IN Len(IF dialog.step = "Name" THEN dialog.name ELSE dialog.url)
              < MaxDialogLen
    /\ \E c \in DialogChars : app' = dialog_input_char(app, c)
    /\ UNCHANGED <<remote, task, updates>>

\* InputMode::TextInput, KeyCode::Enter (main.rs:467-471)
DialogEnter ==
    /\ InDialog
    /\ LET stepped == dialog_next_step(app)
       IN IF ~stepped.ready
          THEN app' = stepped.app /\ remote' = remote
          ELSE \E updated, reloaded \in BOOLEAN :
                   LET done == create_new_request(stepped.app, remote,
                                                  updated, reloaded)
                   IN app' = done.app /\ remote' = done.remote
    /\ updates' = IF remote' = remote THEN updates ELSE updates + 1
    /\ updates' <= MaxUpdates
    /\ UNCHANGED task

\* InputMode::TextInput, KeyCode::Esc (main.rs:464-466)
DialogEsc ==
    /\ InDialog
    /\ app' = cancel_dialog(app)
    /\ UNCHANGED <<remote, task, updates>>

\* adding a request to the loaded collection
Adding ==
    \/ KeyAdd
    \/ DialogChar
    \/ DialogEnter
    \/ DialogEsc

\* moving about: panes, cursors, loading a collection, opening a row
Browse ==
    \/ Startup
    \/ KeyFocus
    \/ KeyTab
    \/ KeyDown
    \/ KeyUp
    \/ EnterCollections
    \/ EnterRequests

Searching ==
    \/ KeySlash
    \/ KeyNext
    \/ KeyPrev
    \/ SearchChar
    \/ SearchBackspace
    \/ SearchEnter
    \/ SearchEsc

Editing ==
    \/ KeyEdit
    \/ KeySave
    \/ TaskRun
    \/ SaveEsc
    \/ SaveFinished

\* executing the request of the preview and reading its response
Executing ==
    \/ KeyExecute
    \/ ExecuteYes
    \/ ExecuteDone
    \/ ExecuteNo
    \/ Key4

\* moving about the JSON tree of the response
JsonMoving ==
    \/ JsonDown
    \/ JsonUp
    \/ JsonLeft
    \/ JsonRight
    \/ JsonCollapseAll
    \/ JsonExpandAll
    \/ JsonEnter

JsonSearching ==
    \/ JsonSlash
    \/ JsonNext
    \/ JsonPrev
    \/ JsonSearchChar
    \/ JsonSearchBackspace
    \/ JsonSearchEnter
    \/ JsonSearchEsc

Viewing == JsonMoving \/ JsonSearching

Next ==
    \/ Browse
    \/ Searching
    \/ KeyFavorite
    \/ Editing
    \/ Executing
    \/ Viewing
    \/ Adding

\* the whole event loop
Spec == Init /\ [][Next]_vars

\* the event loop of a user who browses and searches
NextSearch == Browse \/ Searching
SpecSearch == Init /\ [][NextSearch]_vars

\* the event loop of a user who browses and toggles favorites
NextFav == Browse \/ KeyFavorite
SpecFav == Init /\ [][NextFav]_vars

\* the event loop of a user who browses, edits requests and saves them
NextEdit == Browse \/ Editing
SpecEdit == Init /\ [][NextEdit]_vars

(***************************************************************************)
(* One session in the Requests pane, over every tree of Trees and every    *)
(* list of favorites the persisted Config may hold: the state right after  *)
(* load_collections and load_collection_data of the first collection,      *)
(* then the keys of the Requests pane.                                     *)
(***************************************************************************)
RECURSIVE NodePathsFrom(_, _)
NodePathsFrom(items, prefix) ==
    UNION {{Append(prefix, i)}
           \cup (IF At(items, i).kind = "Folder"
                 THEN NodePathsFrom(At(items, i).item, Append(prefix, i))
                 ELSE {}) : i \in 0..(Len(items) - 1)}

NodePaths(items) == NodePathsFrom(items, <<>>)

\* a path no tree of Trees has
StalePath == <<0, 2>>

\* what Config::load may find in favorite_requests for a tree
FavoriteUniverse(items) ==
    {[collection_uid |-> "c1", path |-> p] :
         p \in NodePaths(items) \cup {StalePath}}
    \cup {[collection_uid |-> "c2", path |-> <<0>>]}

Distinct(s) == \A i, j \in 1..Len(s) : i # j => s[i] # s[j]

PersistedFavorites(items) ==
    LET U == FavoriteUniverse(items)
    IN {s \in {<<>>} \cup {<<f>> : f \in U}
               \cup (IF MaxTreeFavs >= 2 THEN U \X U ELSE {})
               \cup (IF MaxTreeFavs >= 3 THEN U \X U \X U ELSE {}) :
           Distinct(s)}

Loaded(items, favs) ==
    load_collection_data(
        flatten_collections([NewApp EXCEPT !.collections = Collections,
                                           !.favorite_requests = favs]),
        Some([uid |-> "c1", item |-> items]))

TreeInit ==
    /\ \E items \in Trees :
           /\ remote = [RemoteInit EXCEPT !["c1"] = items]
           /\ \E favs \in PersistedFavorites(items) :
                  app = Loaded(items, favs)
    /\ task = None
    /\ updates = 0

NextTree ==
    \/ KeyDown
    \/ KeyUp
    \/ EnterRequests

SpecTree == TreeInit /\ [][NextTree]_vars

\* the same session without persisted favorites, with the search keys
TreeSearchInit ==
    /\ \E items \in Trees :
           /\ remote = [RemoteInit EXCEPT !["c1"] = items]
           /\ app = Loaded(items, <<>>)
    /\ task = None
    /\ updates = 0

NextTreeSearch == NextTree \/ Searching

SpecTreeSearch == TreeSearchInit /\ [][NextTreeSearch]_vars

\* a session on a loaded tree in which requests are edited and favorites are
\* toggled
KeyFavoriteTree == KeyFavoriteUpTo(MaxTreeFavs)

NextTreeFav == NextTree \/ KeyFavoriteTree \/ KeyEdit

SpecTreeFav == TreeSearchInit /\ [][NextTreeFav]_vars

\* a session on a loaded tree in which several requests are edited and saved
KeyEditTree == KeyEditUpTo(MaxTreeEdits)

NextTreeEdit ==
    \/ NextTree
    \/ KeyEditTree
    \/ KeySave
    \/ TaskRun
    \/ SaveEsc
    \/ SaveFinished

SpecTreeEdit == TreeSearchInit /\ [][NextTreeEdit]_vars

\* a session in which a leaf of the spec's tree has been opened in the
\* preview (Enter on the folder, `j` to the leaf, Enter), and its request is
\* executed and the response read in the JSON viewer
JsonInit ==
    /\ remote = RemoteInit
    /\ \E steps \in {1, 2} :
           LET opened == toggle_folder(Loaded(TreeA, <<>>))
               on_leaf == IF steps = 1 THEN move_down(opened)
                          ELSE move_down(move_down(opened))
           IN app = select_request(on_leaf)
    /\ task = None
    /\ updates = 0

NextJson == Executing \/ Viewing

SpecJson == JsonInit /\ [][NextJson]_vars

\* a session, from the loaded list of collections on, of a user who gets
\* about by searching only: the collections, then the requests of the one
\* loaded, then the response of the request the search stopped on
MatchesInit ==
    /\ remote = [RemoteInit EXCEPT !["c1"] = TreeNested]
    /\ app = flatten_collections([NewApp EXCEPT !.collections = Collections])
    /\ task = None
    /\ updates = 0

NextMatches == EnterCollections \/ Searching \/ Executing \/ JsonSearching

SpecMatches == MatchesInit /\ [][NextMatches]_vars

(***************************************************************************)
(* Vocabulary of the properties.                                           *)
(***************************************************************************)
RECURSIVE NodeAt(_, _)
\* the node of a tree at one of its NodePaths
NodeAt(items, p) ==
    IF Len(p) = 1 THEN At(items, p[1])
    ELSE NodeAt(At(items, p[1]).item, Tail(p))

LeafPaths(items) == {p \in NodePaths(items) : NodeAt(items, p).kind = "Request"}

ProperPrefixes(p) == {SubSeq(p, 1, k) : k \in 1..(Len(p) - 1)}

\* p comes before q in depth-first pre-order
PreorderLess(p, q) ==
    \E k \in 1..Len(q) :
        /\ k <= Len(p) + 1
        /\ \A j \in 1..(k - 1) : p[j] = q[j]
        /\ k = Len(p) + 1 \/ p[k] < q[k]

HasTree == ~app.panicked /\ app.current_collection # None
CurrentItems == app.current_collection[1].item

\* the rows of flat_items that are leaf rows of the tree traversal
LeafRowPaths ==
    {app.flat_items[i].path : i \in {j \in 1..Len(app.flat_items) :
                                         ~app.flat_items[j].is_folder}}

NoFavoriteAtAll == app.favorite_requests = <<>>

InRequestsSearch ==
    HasTree /\ app.input_mode = "Search" /\ app.focused_pane = "Requests"

Range(s) == {s[i] : i \in 1..Len(s)}

\* the (collection, path) keys of the local edits
EditKeys(a) == {<<e.collection_uid, e.path>> : e \in Range(a.local_edits)}

EditContent(e) ==
    [name |-> e.name, method |-> e.method, url |-> e.url, body |-> e.body]

\* 'f' acts on a row of the Requests pane that is not the Favorites folder
FavSelection(a) ==
    /\ ~a.panicked /\ a.input_mode = "Normal" /\ a.focused_pane = "Requests"
    /\ a.selected_item_index < Len(a.flat_items)
    /\ a.selected_collection_index < Len(a.collections)
    /\ At(a.flat_items, a.selected_item_index).path # FavoritesPath

SelectedPath(a) == At(a.flat_items, a.selected_item_index).path

(***************************************************************************)
(* C1: with no favorites, a leaf of the tree has a row in flat_items if    *)
(* and only if every non-empty proper prefix of its path is in             *)
(* expanded_folders.                                                       *)
(***************************************************************************)
C1_LeafVisibleIffAncestorsExpanded ==
    (HasTree /\ NoFavoriteAtAll) =>
        \A p \in LeafPaths(CurrentItems) :
            (p \in LeafRowPaths) <=> (ProperPrefixes(p) \subseteq app.expanded_folders)

\* a leaf two folders deep is hidden although its own folder is expanded,
\* because the folder above was collapsed after both had been expanded
C1_Witness ==
    /\ HasTree /\ NoFavoriteAtAll
    /\ \E p \in LeafPaths(CurrentItems) :
           /\ Len(p) = 3
           /\ p \notin LeafRowPaths
           /\ SubSeq(p, 1, 2) \in app.expanded_folders

(***************************************************************************)
(* C2: in the Requests pane, after a query edit that leaves a non-empty    *)
(* query q, search_match_paths lists in depth-first pre-order exactly the  *)
(* paths of the nodes of the whole tree whose name contains q without      *)
(* regard to case, whatever expanded_folders holds.                        *)
(***************************************************************************)
NameMatches(items, q) ==
    {p \in NodePaths(items) :
        contains(to_lowercase(NodeAt(items, p).name), to_lowercase(q))}

C2_SearchFindsAllNamesInPreorder ==
    (InRequestsSearch /\ app.search_query # <<>>) =>
        LET ms == app.search_match_paths
        IN /\ Range(ms) = NameMatches(CurrentItems, app.search_query)
           /\ \A i, j \in 1..Len(ms) : i < j => PreorderLess(ms[i], ms[j])

\* a match below a folder that was never expanded, next to a matching folder
C2_Witness ==
    /\ InRequestsSearch /\ app.search_query # <<>>
    /\ \E i, j \in 1..Len(app.search_match_paths) :
           /\ i < j
           /\ Len(app.search_match_paths[j]) = 3
           /\ app.search_match_paths[i] \in ProperPrefixes(app.search_match_paths[j])
    /\ \E p \in Range(app.search_match_paths) :
           Len(p) >= 2 /\ ~(ProperPrefixes(p) \subseteq app.expanded_folders)

(***************************************************************************)
(* C3: whenever the query is empty while a search is typed (after          *)
(* start_search, or after search_backspace removed the last character),    *)
(* search_matches and search_match_paths are both empty.                   *)
(***************************************************************************)
C3_EmptyQueryHasNoMatches ==
    (~app.panicked /\ app.input_mode = "Search" /\ app.search_query = <<>>) =>
        (app.search_matches = <<>> /\ app.search_match_paths = <<>>)

(***************************************************************************)
(* C4: every path of search_match_paths computed on the loaded tree        *)
(* resolves on that tree: get_item_at_path returns Some.                   *)
(***************************************************************************)
C4_MatchesResolve ==
    (InRequestsSearch /\ app.search_query # <<>>) =>
        \A p \in Range(app.search_match_paths) :
            get_item_at_path(CurrentItems, p) # None

\* matches at the root and two folders deep
C4_Witness ==
    /\ InRequestsSearch /\ app.search_query # <<>>
    /\ \A d \in {1, 3} : \E p \in Range(app.search_match_paths) : Len(p) = d

(***************************************************************************)
(* C5: toggling the favorite of the same request path twice in a row       *)
(* returns favorite_requests to its original membership and leaves the     *)
(* loaded tree and every local edit as they were.                          *)
(***************************************************************************)
C5_ToggleTwiceRestores ==
    FavSelection(app) =>
        LET once == toggle_favorite(app)
        IN (FavSelection(once) /\ SelectedPath(once) = SelectedPath(app)) =>
               LET twice == toggle_favorite(once)
               IN /\ Range(once.favorite_requests) # Range(app.favorite_requests)
                  /\ Range(twice.favorite_requests) = Range(app.favorite_requests)
                  /\ twice.current_collection = app.current_collection
                  /\ twice.local_edits = app.local_edits
                  /\ ~twice.panicked

\* the selected request is the older of two favorites and has a local edit:
\* the first toggle removes it, the second appends it after the other one
C5_Witness ==
    /\ FavSelection(app)
    /\ Len(app.favorite_requests) = 2
    /\ app.favorite_requests[1].path = SelectedPath(app)
    /\ app.favorite_requests[2].collection_uid = "c1"
    /\ get_local_edit(app, SelectedPath(app)) # None
    /\ LET once == toggle_favorite(app)
       IN /\ FavSelection(once) /\ SelectedPath(once) = SelectedPath(app)
          /\ Len(once.favorite_requests) = 1
          /\ toggle_favorite(once).favorite_requests # app.favorite_requests

(***************************************************************************)
(* C6: for every leaf row, when local_edits holds an entry for the current *)
(* collection (the one get_current_collection_uid names) and the row's     *)
(* path, get_local_edit returns that entry and select_request previews     *)
(* its content instead of the row's base request; once the entry is        *)
(* removed, both resolve to the base request of the tree again.            *)
(***************************************************************************)
HasOverlay(a, path) ==
    /\ get_current_collection_uid(a) # None
    /\ <<get_current_collection_uid(a)[1], path>> \in EditKeys(a)

OverlayEntry(a, path) ==
    CHOOSE e \in Range(a.local_edits) :
        e.collection_uid = get_current_collection_uid(a)[1] /\ e.path = path

\* the rows of flat_items that carry a request
LeafRows(a) ==
    {i \in 0..(Len(a.flat_items) - 1) : At(a.flat_items, i).request # None}

C6_OverlayWinsUntilRemoved ==
    ~app.panicked =>
        \A i \in LeafRows(app) :
            LET item == At(app.flat_items, i)
                at_row == [app EXCEPT !.selected_item_index = i]
                removed == clear_local_edit(at_row, item.path)
            IN /\ HasOverlay(app, item.path) =>
                      LET e == EditContent(OverlayEntry(app, item.path))
                      IN /\ get_local_edit(app, item.path) = Some(e)
                         /\ select_request(at_row).current_request =
                                Some(edited_request(e, item.request[1].header))
               /\ ~HasOverlay(removed, item.path)
               /\ get_local_edit(removed, item.path) = None
               /\ select_request(removed).current_request = item.request
               /\ app.current_collection # None =>
                      /\ get_item_at_path(CurrentItems, item.path) # None
                      /\ get_item_at_path(CurrentItems, item.path)[1].request
                             = item.request

\* Enter was pressed on a leaf that has a local edit: the preview shows the
\* edit, which differs from the leaf's request in the tree
C6_Witness ==
    /\ ~app.panicked /\ app.input_mode = "Normal"
    /\ app.focused_pane = "Preview"
    /\ app.selected_item_index \in LeafRows(app)
    /\ LET item == At(app.flat_items, app.selected_item_index)
       IN /\ HasOverlay(app, item.path)
          /\ app.current_request =
                 Some(edited_request(EditContent(OverlayEntry(app, item.path)),
                                     item.request[1].header))
          /\ app.current_request # item.request
          /\ app.last_state # None
          /\ app.last_state[1].request_path = item.path

(***************************************************************************)
(* C7: while a local edit exists for a leaf, every operation that makes    *)
(* the leaf the selection and refreshes the preview (select_request,       *)
(* move_up, move_down, a search jump, the refresh after a save) sets       *)
(* current_request to the edit's content, never to the base request.       *)
(***************************************************************************)
\* the preview a shows is the local edit of the row a selects, if it has one
ShowsOverlay(a) ==
    (/\ ~a.panicked
     /\ a.selected_item_index \in LeafRows(a)
     /\ HasOverlay(a, SelectedPath(a)))
        => a.current_request =
               Some(edited_request(
                        EditContent(OverlayEntry(a, SelectedPath(a))),
                        At(a.flat_items, a.selected_item_index).request[1].header))

\* b is app after an operation that selected another row
Reselected(b) == b.selected_item_index # app.selected_item_index

C7_PreviewShowsOverlay ==
    (~app.panicked /\ app.input_mode = "Normal"
        /\ app.focused_pane = "Requests" /\ app.flat_items # <<>>) =>
        /\ ShowsOverlay(select_request(app))
        /\ Reselected(move_up(app)) => ShowsOverlay(move_up(app))
        /\ Reselected(move_down(app)) => ShowsOverlay(move_down(app))

(***************************************************************************)
(* C8: a local edit leaves local_edits only in the step that handles the   *)
(* successful result of a save of that very edit; the step that cancels a  *)
(* save or handles its failure leaves local_edits and favorite_requests    *)
(* as they were.                                                           *)
(***************************************************************************)
C8_OverlayRemovedOnlyBySavedEdit ==
    [][/\ \A e \in Range(app.local_edits) :
              <<e.collection_uid, e.path>> \notin EditKeys(app') =>
                  /\ task # None
                  /\ task[1].stage = "ok"
                  /\ task[1].saved_item_path = Some(e.path)
                  /\ task[1].pending.edited = EditContent(e)
       /\ (/\ task # None
           /\ task' = None
           /\ task[1].stage # "ok" \/ app' = cancel_saving(app))
              => /\ app'.local_edits = app.local_edits
                 /\ app'.favorite_requests = app.favorite_requests]_vars

(***************************************************************************)
(* C9: when favorite_requests filtered to the current collection is not    *)
(* empty, flat_items begins with the folder row "Favorites" at depth 0     *)
(* whose path is the sentinel [usize::MAX]; if that row is expanded it is  *)
(* followed by one depth-1 row per resolvable favorite path, carrying the  *)
(* real path, and then by the rows of the normal traversal; when the       *)
(* filtered favorites are empty there is no synthetic row.                 *)
(***************************************************************************)
\* the favorite paths of the current collection
FilteredFavorites(a) ==
    {f.path : f \in {g \in Range(a.favorite_requests) :
                         g.collection_uid = get_current_collection_uid(a)[1]}}

ResolvableFavorites(a) ==
    FilteredFavorites(a) \cap NodePaths(a.current_collection[1].item)

TraversalRows(a) ==
    flatten_recursive(a.current_collection[1].item, 0, <<>>, a.expanded_folders)

\* the favorite paths shown below the Favorites row: none while it is
\* collapsed
ShownFavorites(a) ==
    IF a.flat_items # <<>> /\ a.flat_items[1].path = FavoritesPath
       /\ a.flat_items[1].expanded
    THEN ResolvableFavorites(a) ELSE {}

FavoriteRowCount(a) == Cardinality(ShownFavorites(a))

C9_FavoritesSectionFirst ==
    (HasTree /\ get_current_collection_uid(app) # None) =>
        LET rows == app.flat_items
            k == FavoriteRowCount(app)
        IN IF FilteredFavorites(app) = {}
           THEN /\ rows = TraversalRows(app)
                /\ \A i \in 1..Len(rows) : rows[i].path # FavoritesPath
           ELSE /\ Len(rows) >= 1 + k
                /\ rows[1].name = <<"F", "a", "v", "o", "r", "i", "t", "e", "s">>
                /\ rows[1].depth = 0
                /\ rows[1].is_folder
                /\ rows[1].path = FavoritesPath
                /\ \A i \in 2..(1 + k) :
                       /\ rows[i].depth = 1
                       /\ rows[i].path \in ShownFavorites(app)
                       /\ rows[i].name = NodeAt(CurrentItems, rows[i].path).name
                /\ {rows[i].path : i \in 2..(1 + k)} = ShownFavorites(app)
                /\ SubSeq(rows, 2 + k, Len(rows)) = TraversalRows(app)

\* an expanded Favorites row above one favorite row, while a second favorite
\* of the collection resolves to nothing and a folder of the tree is expanded
C9_Witness ==
    /\ HasTree /\ get_current_collection_uid(app) # None
    /\ Cardinality(FilteredFavorites(app)) = 2
    /\ FavoriteRowCount(app) = 1
    /\ app.expanded_folders # {}

(***************************************************************************)
(* C10: the rows inside the expanded Favorites folder are ordered by the   *)
(* pre-order of their paths in the tree, not by the order in which the     *)
(* favorites were added.                                                   *)
(***************************************************************************)
C10_FavoriteRowsInPreorder ==
    (HasTree /\ get_current_collection_uid(app) # None) =>
        \A i, j \in 2..(1 + FavoriteRowCount(app)) :
            i < j => PreorderLess(app.flat_items[i].path, app.flat_items[j].path)

(***************************************************************************)
(* C11: in every reachable state no persisted path contains the sentinel   *)
(* index usize::MAX: not last_state.request_path, not a favorite_requests  *)
(* entry, not a local_edits entry.                                         *)
(***************************************************************************)
HasSentinel(path) == USIZE_MAX \in Range(path)

C11_NoSentinelPersisted ==
    /\ app.last_state # None => ~HasSentinel(app.last_state[1].request_path)
    /\ \A f \in Range(app.favorite_requests) : ~HasSentinel(f.path)
    /\ \A e \in Range(app.local_edits) : ~HasSentinel(e.path)

\* the cursor went onto the Favorites row, whose path is the sentinel, and
\* the cursor position that was persisted is the empty path
C11_Witness ==
    /\ ~app.panicked
    /\ app.focused_pane = "Requests"
    /\ app.selected_item_index < Len(app.flat_items)
    /\ SelectedPath(app) = FavoritesPath
    /\ app.last_state # None
    /\ app.last_state[1].request_path = <<>>
    /\ app.favorite_requests # <<>>
    /\ app.local_edits # <<>>

(***************************************************************************)
(* C12: whenever an operation of the Requests pane can read or write the   *)
(* favorite and edit overlays, the collection id it uses                   *)
(* (collections[selected_collection_index].uid) is the uid of the          *)
(* collection whose tree is loaded in current_collection.                  *)
(***************************************************************************)
C12_OverlayUidIsLoadedCollection ==
    (HasTree /\ app.input_mode = "Normal" /\ app.focused_pane = "Requests"
        /\ app.flat_items # <<>>) =>
        get_current_collection_uid(app) = Some(app.current_collection[1].uid)

(***************************************************************************)
(* C13: no operation panics on an out-of-range index: in every reachable   *)
(* state in which flatten_items would evaluate                             *)
(* collections[selected_collection_index] (a tree is loaded and            *)
(* collections is not empty), selected_collection_index < len(collections) *)
(* holds, also when the Favorites section adds rows to flat_collections.   *)
(***************************************************************************)
C13_CollectionIndexInRange ==
    /\ ~app.panicked
    /\ (app.current_collection # None /\ app.collections # <<>>) =>
           app.selected_collection_index < Len(app.collections)

(***************************************************************************)
(* C14: after toggle_favorite in the Requests pane the cursor is on a row  *)
(* whose path is the path selected before, if the new rows have such a     *)
(* row; otherwise the cursor is clamped: selected_item_index is below      *)
(* len(flat_items) whenever flat_items is not empty.                       *)
(***************************************************************************)
C14_CursorFollowsPathOrIsClamped ==
    FavSelection(app) =>
        LET toggled == toggle_favorite(app)
            path == SelectedPath(app)
        IN ~toggled.panicked =>
               IF \E i \in 1..Len(toggled.flat_items) :
                      toggled.flat_items[i].path = path
               THEN /\ toggled.selected_item_index < Len(toggled.flat_items)
                    /\ SelectedPath(toggled) = path
               ELSE toggled.flat_items # <<>> =>
                        toggled.selected_item_index < Len(toggled.flat_items)

FolderRows(a) == {i \in 1..Len(a.flat_items) : a.flat_items[i].is_folder}

C16_SentinelNeverInExpandedSet ==
    HasTree =>
        /\ FavoritesPath \notin app.expanded_folders
        /\ \A i \in FolderRows(app) :
               app.flat_items[i].path \in app.expanded_folders
                   => app.flat_items[i].expanded

(***************************************************************************)
(* C16, amended: the Favorites pseudo-folder of the Requests pane has no   *)
(* flag of its own; its row is expanded exactly when the sentinel path is  *)
(* not in expanded_folders, while the row of every real folder is          *)
(* expanded exactly when its path is in expanded_folders.                  *)
(***************************************************************************)
C16_SentinelMembershipMeansCollapsed ==
    HasTree =>
        \A i \in FolderRows(app) :
            LET row == app.flat_items[i]
            IN row.expanded <=>
                   IF row.path = FavoritesPath
                   THEN FavoritesPath \notin app.expanded_folders
                   ELSE row.path \in app.expanded_folders

\* toggle_folder on the Favorites row put the sentinel into expanded_folders:
\* the row is collapsed, next to a real folder that is expanded
C16_Witness ==
    /\ HasTree
    /\ FavoritesPath \in app.expanded_folders
    /\ app.flat_items # <<>>
    /\ app.flat_items[1].path = FavoritesPath
    /\ ~app.flat_items[1].expanded
    /\ \E i \in FolderRows(app) :
           app.flat_items[i].path # FavoritesPath /\ app.flat_items[i].expanded

\* the viewer of the response, when there is one
HasViewer == ~app.panicked /\ app.json_viewer_state # None
Viewer == app.json_viewer_state[1]

\* C17: in every state with a viewer, whatever is open and whatever the
\* value (object, array or scalar), expand_all followed by collapse_all
\* leaves exactly one path open, [Root]; and every step of the `H` key ends
\* with exactly that set.
C17_ExpandThenCollapseLeavesRoot ==
    [][ /\ HasViewer =>
              collapse_all(expand_all(Viewer)).tree_state.opened = {<<Root>>}
        /\ JsonCollapseAll =>
              app'.json_viewer_state[1].tree_state.opened = {<<Root>>}
      ]_vars

\* the viewer of an object in which the user has closed the root and left
\* a nested object and a leaf open, so that collapse_all has paths to close
\* and the root to reopen
C17_Witness ==
    /\ HasViewer
    /\ InViewer
    /\ Viewer.json = JsonDoc
    /\ <<Root>> \notin Viewer.tree_state.opened
    /\ <<Root, Key(<<"k">>), Index(3)>> \in Viewer.tree_state.opened
    /\ <<Root, Key(<<"a">>)>> \in Viewer.tree_state.opened

\* C18: between user actions the rows are the projection flatten_items
\* computes afresh from the current tree, expanded_folders, favorites and
\* collection cursor.
C18_RowsAreFreshProjection ==
    (~app.panicked /\ ~flatten_items(app).panicked)
        => app.flat_items = flatten_items(app).flat_items

\* the index after a step forward and a step back among n matches
NextIndex(i, n) == (i + 1) % n
PrevIndex(i, n) == (i + n - 1) % n

\* C19: in every state, what `n` and `N` would do, in the panes and in the
\* JSON viewer, is to move current_match_index modulo the number of
\* matches: forward from the last match to index 0, back from index 0 to
\* the last match; with no match they change nothing.
C19_MatchIndexWrapsBothWays ==
    ~app.panicked =>
        /\ IF match_count(app) = 0
           THEN next_match(app) = app /\ prev_match(app) = app
           ELSE /\ next_match(app).current_match_index =
                       NextIndex(app.current_match_index, match_count(app))
                /\ prev_match(app).current_match_index =
                       PrevIndex(app.current_match_index, match_count(app))
        /\ HasViewer =>
              IF Viewer.search_matches = <<>>
              THEN /\ json_search_next(app) = app
                   /\ json_search_prev(app) = app
              ELSE /\ json_search_next(app).json_viewer_state[1]
                          .current_match_index =
                              NextIndex(Viewer.current_match_index,
                                        Len(Viewer.search_matches))
                   /\ json_search_prev(app).json_viewer_state[1]
                          .current_match_index =
                              PrevIndex(Viewer.current_match_index,
                                        Len(Viewer.search_matches))

\* both searches stand on the last of three matches, which only a step
\* back from index 0 or two steps forward reach: the request search in the
\* Requests pane before the response was focused, the viewer's search now
C19_Witness ==
    /\ HasViewer
    /\ InViewer
    /\ app.input_mode = "Normal"
    /\ Len(app.search_match_paths) = 3
    /\ app.current_match_index = 2
    /\ Len(Viewer.search_matches) = 3
    /\ Viewer.current_match_index = 2
    /\ Viewer.tree_state.selected = <<Root, Index(2)>>

\* the state b is as a jump to its current match leaves it: the ancestors
\* of the match are expanded and the cursor is on a row with its path
OnTarget(b) ==
    ~b.panicked =>
        LET target == At(b.search_match_paths, b.current_match_index)
        IN /\ ProperPrefixes(target) \subseteq b.expanded_folders
           /\ b.selected_item_index < Len(b.flat_items)
           /\ At(b.flat_items, b.selected_item_index).path = target

\* C20: in the Requests pane, what `n` and `N` would do with a non-empty
\* match list, and what a typed character or a backspace would do when it
\* yields a non-empty match list, is to leave every non-empty proper prefix
\* of the target path in expanded_folders and the cursor on a row with the
\* target path.
C20_JumpExpandsAncestorsAndSelects ==
    (~app.panicked /\ app.focused_pane = "Requests") =>
        /\ (app.input_mode = "Normal" /\ app.search_match_paths # <<>>) =>
               OnTarget(next_match(app)) /\ OnTarget(prev_match(app))
        /\ app.input_mode = "Search" =>
               /\ \A c \in QueryChars :
                      search_input_char(app, c).search_match_paths # <<>>
                          => OnTarget(search_input_char(app, c))
               /\ search_backspace(app).search_match_paths # <<>>
                      => OnTarget(search_backspace(app))

\* C21: in every state of a search being typed, what Esc would do is to
\* leave the query and both match lists empty, so that `n` and `N` after it
\* change nothing.
C21_CancelClearsQueryAndMatches ==
    InSearch =>
        LET b == cancel_search(app)
        IN /\ b.search_query = <<>>
           /\ b.search_matches = <<>>
           /\ b.search_match_paths = <<>>
           /\ next_match(b) = b
           /\ prev_match(b) = b

\* the cursor of the focused pane
PaneIndex(a) ==
    IF a.focused_pane = "Collections" THEN a.selected_collection_index
    ELSE IF a.focused_pane = "Requests" THEN a.selected_item_index
    ELSE 0

\* C22: `/` records the cursor of the pane, typing never changes the record,
\* and in every state of a search being typed Esc would put the cursor back
\* on the recorded index and leave expanded_folders as it is, while Enter
\* would leave both cursors and expanded_folders as they are.
C22_CancelRestoresConfirmKeeps ==
    [][ /\ (KeySlash /\ app'.input_mode = "Search") =>
               app'.pre_search_index = PaneIndex(app)
        /\ (InSearch /\ app'.input_mode = "Search") =>
               app'.pre_search_index = app.pre_search_index
        /\ InSearch =>
               /\ PaneIndex(cancel_search(app)) = app.pre_search_index \/
                      app.focused_pane \notin {"Collections", "Requests"}
               /\ cancel_search(app).expanded_folders = app.expanded_folders
               /\ cancel_search(app).selected_item_index =
                      app.selected_item_index \/ app.focused_pane = "Requests"
               /\ cancel_search(app).selected_collection_index =
                      app.selected_collection_index \/
                          app.focused_pane = "Collections"
               /\ confirm_search(app).expanded_folders = app.expanded_folders
               /\ confirm_search(app).selected_item_index =
                      app.selected_item_index
               /\ confirm_search(app).selected_collection_index =
                      app.selected_collection_index
      ]_vars

\* a search in the Requests pane whose live jump has expanded a folder and
\* moved the cursor away from the row the search began on
C22_Witness ==
    /\ InSearch
    /\ app.focused_pane = "Requests"
    /\ app.expanded_folders # {}
    /\ app.selected_item_index # app.pre_search_index
    /\ app.search_match_paths # <<>>

\* C23: every step that puts a different tree into current_collection
\* leaves no match path behind, so that `n` and `N` after it change nothing
\* in the Requests pane.
C23_NoMatchPathOutlivesItsTree ==
    [][ (/\ ~app'.panicked
         /\ app.current_collection # None
         /\ app'.current_collection # None
         /\ app'.current_collection[1].item # app.current_collection[1].item)
            => /\ app'.search_match_paths = <<>>
               /\ app'.focused_pane = "Requests" =>
                      next_match(app') = app' /\ prev_match(app') = app'
      ]_vars

\* C24: every row of flat_items that carries a request carries the content
\* of the overlay entry of (current collection, path) when there is one, and
\* the request of the tree's leaf at that path when there is none.
C24_LeafRowsCarryEffectivePayload ==
    (~app.panicked /\ app.current_collection # None) =>
        \A i \in LeafRows(app) :
            LET item == At(app.flat_items, i)
                base == get_item_at_path(app.current_collection[1].item,
                                         item.path)
            IN /\ base # None
               /\ IF HasOverlay(app, item.path)
                  THEN item.request =
                           Some(edited_request(
                                    EditContent(OverlayEntry(app, item.path)),
                                    base[1].request[1].header))
                  ELSE item.request = base[1].request

\* the rows of flat_items that the tree traversal emitted: those after the
\* Favorites row and the depth-1 rows of its section
SectionLen(a) ==
    IF a.flat_items # <<>> /\ a.flat_items[1].path = FavoritesPath
    THEN LET later == {i \in 2..Len(a.flat_items) : a.flat_items[i].depth = 0}
         IN IF later = {} THEN Len(a.flat_items)
            ELSE (CHOOSE i \in later : \A j \in later : i <= j) - 1
    ELSE 0

TreeRows(a) == SubSeq(a.flat_items, SectionLen(a) + 1, Len(a.flat_items))

\* C25: the rows of the tree traversal come in strictly increasing
\* pre-order of their paths (so no two share a path), each at depth
\* len(path) - 1, and a folder row is flagged expanded exactly when its path
\* is in expanded_folders.
C25_TraversalRowsInPreorder ==
    HasTree =>
        LET rows == TreeRows(app)
        IN /\ \A i \in 1..(Len(rows) - 1) :
                  PreorderLess(rows[i].path, rows[i + 1].path)
           /\ \A i, j \in 1..Len(rows) :
                  i # j => rows[i].path # rows[j].path
           /\ \A i \in 1..Len(rows) :
                  /\ rows[i].depth = Len(rows[i].path) - 1
                  /\ rows[i].is_folder =>
                         (rows[i].expanded <=>
                              rows[i].path \in app.expanded_folders)
                  /\ ~rows[i].is_folder => ~rows[i].expanded

\* the nested tree fully expanded under an expanded Favorites section: rows
\* at depth 0, 1 and 2 after the section
C25_Witness ==
    /\ HasTree
    /\ SectionLen(app) >= 2
    /\ \E i \in 1..Len(TreeRows(app)) : TreeRows(app)[i].depth = 2
    /\ Len(TreeRows(app)) = 6

\* the positions of the overlay entries of b stored under a key
EntriesAt(b, uid, path) ==
    {i \in 1..Len(b.local_edits) :
        b.local_edits[i].collection_uid = uid /\ b.local_edits[i].path = path}

\* the overlay entries of b under every other key, in their order
OtherEntries(b, uid, path) ==
    LET other(e) == ~(e.collection_uid = uid /\ e.path = path)
    IN SelectSeq(b.local_edits, other)

\* C26: in every state in which `E` can edit the selected row, whatever the
\* editor returns, store_local_edit leaves exactly one overlay entry under
\* (current collection, path of the row), holding the new content, leaves
\* the entries of all other keys as they were, shows the new method, url
\* and body in current_request, and leaves current_collection as it was.
C26_StoreLocalEditUpserts ==
    (Normal /\ get_current_request_for_edit(app) # None
        /\ get_current_collection_uid(app) # None) =>
        LET got == get_current_request_for_edit(app)[1]
            uid == get_current_collection_uid(app)[1]
            path == At(app.flat_items, got[2]).path
        IN \A edited \in EditChoices(got[1]) :
               LET b == store_local_edit(app, edited, got[2])
                   at == EntriesAt(b, uid, path)
               IN /\ ~b.panicked
                  /\ Cardinality(at) = 1
                  /\ \A i \in at : EditContent(b.local_edits[i]) = edited
                  /\ OtherEntries(b, uid, path) = OtherEntries(app, uid, path)
                  /\ b.current_request # None
                  /\ b.current_request[1].method = edited.method
                  /\ url_to_string(b.current_request[1].url) = edited.url
                  /\ b.current_request[1].body =
                         (IF edited.body = <<>> THEN None
                          ELSE Some(edited.body))
                  /\ b.current_collection = app.current_collection

\* the cursor is on a leaf that already has an overlay entry while another
\* leaf has one too: the next edit replaces one entry and keeps the other
C26_Witness ==
    /\ Normal
    /\ get_current_request_for_edit(app) # None
    /\ get_current_collection_uid(app) # None
    /\ HasOverlay(app, SelectedPath(app))
    /\ Len(app.local_edits) = 2

\* the paths resolve is asked about: every sequence of at most MaxPathLen
\* indexes up to MaxPathIndex, the empty one included
PathUniverse ==
    UNION {[1..n -> 0..MaxPathIndex] : n \in 0..MaxPathLen}

\* the children a path leads to: those of the root list, of a folder, or
\* none below a leaf
ChildrenAt(items, pre) ==
    IF pre = <<>> THEN items ELSE NodeAt(items, pre).item

\* the path is empty, or after a valid prefix its next index is out of range
\* at that level (always so below a leaf)
NotFoundCause(items, path) ==
    \/ path = <<>>
    \/ \E k \in 1..Len(path) :
           LET pre == SubSeq(path, 1, k - 1)
           IN /\ pre = <<>> \/ pre \in NodePaths(items)
              /\ path[k] >= Len(ChildrenAt(items, pre))

\* C27: for the loaded tree and every path, get_item_at_path returns a
\* value; it is 'not found' exactly for the empty path, an index out of
\* range at its level and a path that continues past a leaf, and otherwise
\* the name of the node at the path, with the request and id of a leaf.
C27_ResolveIsTotal ==
    HasTree =>
        \A path \in PathUniverse :
            LET got == get_item_at_path(CurrentItems, path)
            IN /\ Len(got) <= 1
               /\ got = None <=> NotFoundCause(CurrentItems, path)
               /\ got # None =>
                      LET node == NodeAt(CurrentItems, path)
                      IN got[1] = [name |-> node.name,
                                   request |-> IF node.kind = "Folder" THEN None
                                               ELSE Some(node.request),
                                   request_id |-> node.id]

\* the nested tree loaded with two persisted favorites, one at a path the
\* tree does not have and one on a leaf three levels down: the rows were
\* rebuilt, resolving both, when a folder was expanded
C27_Witness ==
    /\ HasTree
    /\ CurrentItems = TreeNested
    /\ \E i, j \in 1..Len(app.favorite_requests) :
           /\ app.favorite_requests[i].collection_uid = "c1"
           /\ app.favorite_requests[i].path \notin NodePaths(CurrentItems)
           /\ app.favorite_requests[j].collection_uid = "c1"
           /\ Len(app.favorite_requests[j].path) = 3
    /\ FavoriteRowCount(app) = 1
    /\ app.expanded_folders # {}

\* the inputs of insert_item_at_path drawn from bounded sets: a loaded tree
\* and the dialog at its Url step with any target path of PathUniverse,
\* those no row yields included; then the keys of the Requests pane and of
\* the dialog
InsertInit ==
    /\ \E items \in Trees :
           /\ remote = [RemoteInit EXCEPT !["c1"] = items]
           /\ \E target \in PathUniverse :
                  app = [Loaded(items, <<>>) EXCEPT
                            !.new_request_dialog =
                                Some([step |-> "Url", name |-> <<"n">>,
                                      url |-> <<>>,
                                      target_folder_path |-> target]),
                            !.input_mode = "TextInput"]
    /\ task = None
    /\ updates = 0

NextInsert == NextTree \/ Adding

SpecInsert == InsertInit /\ [][NextInsert]_vars

\* the folders of a tree, by path
FolderPaths(items) ==
    {p \in NodePaths(items) : NodeAt(items, p).kind = "Folder"}

\* the last valid folder level a descent along the path reaches: its longest
\* prefix that is empty (the root list) or the path of a folder
LastFolderLevel(items, path) ==
    LET valid == {k \in 0..Len(path) :
                      k = 0 \/ SubSeq(path, 1, k) \in FolderPaths(items)}
    IN SubSeq(path, 1, CHOOSE k \in valid : \A m \in valid : m <= k)

RECURSIVE AppendAt(_, _, _)
\* the tree with one more last child in the root list or in the folder at
\* level
AppendAt(items, level, new_item) ==
    IF level = <<>> THEN Append(items, new_item)
    ELSE [items EXCEPT ![level[1] + 1] =
             [@ EXCEPT !.item = AppendAt(@, Tail(level), new_item)]]

\* the request the dialog of the Requests pane adds when left at its defaults
AddedItem == new_request_item([name |-> <<"n">>, url |-> <<>>])

\* C28: for the loaded tree and every path, insert_item_at_path returns the
\* tree with the new node appended as the last child of the last valid
\* folder level the path reaches: the folder the path addresses, the level
\* before an out-of-range index or a leaf otherwise, the root list if none.
C28_InsertNeverRejects ==
    HasTree =>
        \A path \in PathUniverse :
            insert_item_at_path(CurrentItems, path, AddedItem)
                = AppendAt(CurrentItems,
                           LastFolderLevel(CurrentItems, path), AddedItem)

\* a request was added through the dialog and the collection reloaded: the
\* loaded tree now holds it as the last child of a folder below the root,
\* and the dialog is open again on that grown tree
C28_Witness ==
    /\ HasTree
    /\ remote["c1"] = CurrentItems
    /\ \E level \in FolderPaths(CurrentItems) :
           LET children == NodeAt(CurrentItems, level).item
           IN /\ children # <<>>
              /\ children[Len(children)] = AddedItem
    /\ app.new_request_dialog # None

\* what a save in flight must leave alone: the tree and its rows, the
\* expanded folders, both overlays and the selection
Guarded(a) ==
    [current_collection |-> a.current_collection,
     flat_items |-> a.flat_items,
     expanded_folders |-> a.expanded_folders,
     favorites |-> a.favorites,
     favorite_requests |-> a.favorite_requests,
     local_edits |-> a.local_edits,
     selected_collection_index |-> a.selected_collection_index,
     selected_item_index |-> a.selected_item_index,
     current_request |-> a.current_request,
     focused_pane |-> a.focused_pane]

\* the step hands a successful result of the task to the app
SaveCompletes == task[1].stage = "ok" /\ task' = None

\* C29: from the spawn of the save task until its end, every step is the
\* task's own, its result being taken, or Esc, and none but a completion
\* with success changes the tree, the rows, the expanded folders, the
\* favorite overlay, the edit overlay or the selection.
C29_SaveInFlightLeavesStateAlone ==
    [][task # None =>
          /\ TaskRun \/ SaveEsc \/ SaveFinished
          /\ ~SaveCompletes => Guarded(app') = Guarded(app)]_vars

\* the task has updated the remote collection and the poll loop has not yet
\* seen it: the app still holds the old tree and the overlay entry
C29_Witness ==
    /\ task # None
    /\ task[1].stage = "ok"
    /\ app.input_mode = "Saving"
    /\ app.current_collection # None
    /\ remote[task[1].collection_uid] # app.current_collection[1].item
    /\ app.local_edits # <<>>
    /\ app.expanded_folders # {}

\* C30: the save in flight is that of the leaf at the path under which
\* store_local_edit stored the edit being saved: the row the task updates
\* and the path whose overlay entry a success clears are the path of an
\* overlay entry of the task's collection that holds the content being saved.
C30_SaveTargetsThePathOfTheEdit ==
    (task # None /\ task[1].stage = "running") =>
        /\ task[1].saved_item_path # None
        /\ task[1].pending.item_index < Len(task[1].flat_items)
        /\ At(task[1].flat_items, task[1].pending.item_index).path
               = task[1].saved_item_path[1]
        /\ \E e \in Range(app.local_edits) :
               /\ e.collection_uid = task[1].collection_uid
               /\ e.path = task[1].saved_item_path[1]
               /\ EditContent(e) = task[1].pending.edited

RECURSIVE JsonNodesFrom(_, _, _)
\* the nodes of a JSON value below and at path: [path, key, value], key
\* being that of an object member
JsonNodesFrom(value, path, key) ==
    {[path |-> path, key |-> key, value |-> value]}
        \cup UNION {JsonNodesFrom(
                        value.children[i].value,
                        Append(path, IF value.kind = "Object"
                                     THEN Key(value.children[i].key)
                                     ELSE Index(i - 1)),
                        IF value.kind = "Object"
                        THEN Some(value.children[i].key) ELSE None)
                    : i \in 1..Len(value.children)}

JsonNodes(value) == JsonNodesFrom(value, <<Root>>, None)

\* a string leaf holding q whatever the case, or a number leaf whose text
\* holds q
ValueHolds(value, q) ==
    \/ value.kind = "String"
           /\ contains(to_lowercase(value.str), to_lowercase(q))
    \/ value.kind = "Number" /\ contains(number_to_string(value.num), q)

\* an object member whose key holds q whatever the case
KeyHolds(key, q) ==
    key # None /\ contains(to_lowercase(key[1]), to_lowercase(q))

\* C31: with a non-empty query, search_matches holds the path of every
\* string leaf whose value contains the query case-insensitively, of every
\* number leaf whose text contains it, wherever the leaf sits (member,
\* element or the root value itself), and of every object member whose key
\* contains it.
C31_SearchMatchesEveryStringAndNumberLeaf ==
    (HasViewer /\ Viewer.search_query # <<>>) =>
        \A n \in JsonNodes(Viewer.json) :
            (ValueHolds(n.value, Viewer.search_query)
                 \/ KeyHolds(n.key, Viewer.search_query))
                => n.path \in Range(Viewer.search_matches)

\* the same below the root value
C31_BelowRoot ==
    (HasViewer /\ Viewer.search_query # <<>>) =>
        \A n \in JsonNodes(Viewer.json) \ {m \in JsonNodes(Viewer.json) :
                                              m.path = <<Root>>} :
            (ValueHolds(n.value, Viewer.search_query)
                 \/ KeyHolds(n.key, Viewer.search_query))
                => n.path \in Range(Viewer.search_matches)

\* C32: a boolean or null leaf is in search_matches only as an object member
\* whose key contains the query; one that is an array element, or a member
\* under another key, is never a match, whatever its text.
C32_BooleansAndNullNotMatchedByText ==
    HasViewer =>
        \A n \in JsonNodes(Viewer.json) :
            (n.value.kind \in {"Bool", "Null"}
                 /\ n.path \in Range(Viewer.search_matches))
                => KeyHolds(n.key, Viewer.search_query)

\* the query "a" on the object of flags: the member under the key "a" is
\* the one match, and neither `false` under "f" nor `false` in the array is
C32_Witness ==
    /\ HasViewer
    /\ Viewer.json = JsonFlags
    /\ Viewer.search_query = <<"a">>
    /\ Viewer.search_matches = << <<Root, Key(<<"a">>)>> >>

\* the paths of the objects and arrays of a value, [Root] included when the
\* root is one
ContainerPaths(value) ==
    {n.path : n \in {m \in JsonNodes(value) :
                         m.value.kind \in {"Object", "Array"}}}

LeafPathsOf(value) ==
    {n.path : n \in JsonNodes(value)} \ ContainerPaths(value)

\* C33: in every state with a viewer, expand_all leaves open exactly what
\* was open and every container path of the value: each object and array is
\* marked, no leaf path is, and nothing that was open is closed.
C33_ExpandAllOpensEveryContainer ==
    HasViewer =>
        expand_all(Viewer).tree_state.opened
            = Viewer.tree_state.opened \cup ContainerPaths(Viewer.json)

\* the nested document with every container open beside a leaf path that a
\* toggle had opened
C33_Witness ==
    /\ HasViewer
    /\ Viewer.json = JsonDoc
    /\ ~Viewer.needs_expand
    /\ ContainerPaths(Viewer.json) \subseteq Viewer.tree_state.opened
    /\ Viewer.tree_state.opened \cap LeafPathsOf(Viewer.json) # {}

\* the methods of the requests that are executed: the four that change data,
\* two of them not in upper case, and two that do not
Methods ==
    {GET, HEAD, POST, PUT, DELETE, <<"p", "o", "s", "t">>,
     <<"P", "a", "t", "c", "h">>}

\* a collection of one request, of any of the Methods, opened in the preview
ConfirmInit ==
    /\ \E method \in Methods :
           LET items == <<RequestItem(Some("r1"), <<"f", "o", "o">>,
                                      MkRequest(method, UrlSimple(<<"u">>),
                                                <<>>, None))>>
           IN /\ remote = [RemoteInit EXCEPT !["c1"] = items]
              /\ app = select_request(Loaded(items, <<>>))
    /\ task = None
    /\ updates = 0

NextConfirm == Executing \/ JsonMoving

SpecConfirm == ConfirmInit /\ [][NextConfirm]_vars

\* POST, PUT, DELETE or PATCH in any case
Destructive(method) ==
    \E m \in {POST, PUT, DELETE, PATCH} :
        Len(m) = Len(method)
            /\ \A i \in 1..Len(m) : UpperChar(method[i]) = m[i]

\* C34: a step that sends a request whose method is POST, PUT, DELETE or
\* PATCH in any case is the acceptance of the confirmation (the mode before
\* it is ExecuteConfirm), and one that sends another method starts from
\* Normal; the execute key on a request of those four methods asks and sends
\* nothing, on any other it sends at once; a step that leaves ExecuteConfirm
\* without sending ends in Normal with pending_execute cleared and the
\* response as it was.
C34_DestructiveNeedsConfirmation ==
    [][/\ (~app.request_executing /\ app'.request_executing) =>
              /\ app.current_request # None
              /\ app'.current_request = app.current_request
              /\ app.input_mode =
                     IF Destructive(app.current_request[1].method)
                     THEN "ExecuteConfirm" ELSE "Normal"
              /\ app'.pending_execute = None
       /\ KeyExecute =>
              IF Destructive(app.current_request[1].method)
              THEN /\ app'.input_mode = "ExecuteConfirm"
                   /\ app'.pending_execute # None
                   /\ ~app'.request_executing
              ELSE app'.request_executing
       /\ (app.input_mode = "ExecuteConfirm"
               /\ app'.input_mode # "ExecuteConfirm"
               /\ ~app'.request_executing) =>
              /\ app'.input_mode = "Normal"
              /\ app'.pending_execute = None
              /\ app'.response = app.response
              /\ app'.json_viewer_state = app.json_viewer_state]_vars

\* a request whose method is spelled "post" is on its way, which only the
\* acceptance of its confirmation allows
C34_Witness ==
    /\ ~app.panicked
    /\ app.request_executing
    /\ app.current_request # None
    /\ app.current_request[1].method = <<"p", "o", "s", "t">>
    /\ app.response # None

\* C35: in every reachable state both cursors are in range:
\* selected_item_index is below the number of rows of flat_items when there
\* are rows, and selected_collection_index below the number of rows of
\* flat_collections when there are rows.
C35_CursorsInRange ==
    ~app.panicked =>
        /\ app.flat_items # <<>> =>
               app.selected_item_index < Len(app.flat_items)
        /\ app.flat_collections # <<>> =>
               app.selected_collection_index < Len(app.flat_collections)

\* the session of SpecTreeEdit in which the spawned task runs on and the
\* poll loop, which turns every 50 ms, sees its end
SpecSaveFair ==
    /\ TreeSearchInit
    /\ [][NextTreeEdit]_vars
    /\ WF_vars(TaskRun)
    /\ WF_vars(SaveFinished)

\* C36: whenever the application is in Saving mode it is later in Normal
\* mode (or has crashed), whether the save succeeds, fails, is cancelled or
\* the save task aborts abnormally.
C36_SavingModeEnds ==
    (~app.panicked /\ app.input_mode = "Saving")
        ~> (app.panicked \/ app.input_mode = "Normal")

\* the step ends a save by Esc or by handling its failure
SaveGivenUp ==
    /\ task # None
    /\ task' = None
    /\ \/ app' = cancel_saving(app)
       \/ task[1].stage = "err" /\ app' = save_failed(app)

\* C37: after the step that cancels a save or handles its failure, while
\* the overlay still holds the content that was being saved, the edit is
\* still offered: unsaved_edit is set and start_saving_edit would save the
\* same content again.
C37_FailedSaveCanBeRetried ==
    [][(/\ SaveGivenUp
        /\ ~app'.panicked
        /\ \E e \in Range(app'.local_edits) :
               EditContent(e) = task[1].pending.edited) =>
           /\ app'.unsaved_edit # None
           /\ start_saving_edit(app').pending_save
                  = Some([edited |-> task[1].pending.edited,
                          item_index |-> task[1].pending.item_index])]_vars

\* a session in the list of collections: its cursor, its favorites, its
\* Favorites section and its search, and the loading of a collection
NextList ==
    \/ Startup
    \/ KeyDown
    \/ KeyUp
    \/ KeyFavorite
    \/ EnterCollections
    \/ Searching

SpecList == Init /\ [][NextList]_vars

\* the cursor of the Collections pane is on the row of a collection whose
\* name holds the query whatever the case
OnMatchingCollection(a) ==
    /\ a.selected_collection_index < Len(a.flat_collections)
    /\ LET row == At(a.flat_collections, a.selected_collection_index)
       IN /\ ~row.is_favorites_folder
          /\ contains(to_lowercase(row.name), to_lowercase(a.search_query))

\* C38: in the Collections pane, a step that edits the query and leaves
\* matches, and a step of next_match or prev_match with matches, ends with
\* the cursor of flat_collections on a collection whose name contains the
\* query case-insensitively, with or without a Favorites section.
C38_CollectionJumpLandsOnMatch ==
    [][(/\ app.focused_pane = "Collections"
        /\ SearchChar \/ SearchBackspace \/ KeyNext \/ KeyPrev
        /\ ~app'.panicked
        /\ app'.search_matches # <<>>) => OnMatchingCollection(app')]_vars

\* C39: every row of flat_items that is not a folder row carries a request,
\* the rows of the Favorites section included.
C39_LeafRowsCarryARequest ==
    ~app.panicked =>
        \A i \in 1..Len(app.flat_items) :
            ~app.flat_items[i].is_folder => app.flat_items[i].request # None

\* C40: for the loaded tree and every target path, valid or not,
\* insert_item_at_path adds exactly one node, and every path that resolved
\* before the insert resolves after it to the same name, request and id.
C40_InsertKeepsEveryNode ==
    HasTree =>
        \A target \in PathUniverse :
            LET after == insert_item_at_path(CurrentItems, target, AddedItem)
            IN /\ Cardinality(NodePaths(after))
                      = Cardinality(NodePaths(CurrentItems)) + 1
               /\ \A p \in NodePaths(CurrentItems) :
                      LET node == get_item_at_path(CurrentItems, p)
                      IN node # None /\ get_item_at_path(after, p) = node

\* the request added through the dialog is in the nested tree, three levels
\* down, beside the nodes that were there
C40_Witness ==
    /\ HasTree
    /\ remote["c1"] = CurrentItems
    /\ Cardinality(NodePaths(CurrentItems))
           = Cardinality(NodePaths(TreeNested)) + 1
    /\ NodePaths(TreeNested) \subseteq NodePaths(CurrentItems)
    /\ \E p \in NodePaths(CurrentItems) \ NodePaths(TreeNested) :
           /\ Len(p) = 3
           /\ NodeAt(CurrentItems, p) = AddedItem

====
